---- MODULE Spec2Model ----
(***************************************************************************)
(* A model of the MCP proxy of src/additional_features/mcp_proxy_only.py:  *)
(* the argument normalizer (fix_tool_arguments), the credential rotation   *)
(* gateway (gemini_request), the tool-calling loop (execute_mcp_tool_loop),*)
(* the MCP transport client (mcp_request), the request threads sharing the *)
(* MCP session and the tool cache (initialize_mcp, get_tools), one chat    *)
(* turn (chat_stream.generate), the session log (SessionLogger) and the    *)
(* arguments of one tool invocation (call_tool).                           *)
(*                                                                         *)
(* Each component has its own specification (SpecFix, SpecGateway,         *)
(* SpecLoop, SpecMcp, SpecSession, SpecTurn, SpecLog, SpecInvoke) over the *)
(* shared variables; a specification leaves the variables of the other     *)
(* components at their initial values.                                     *)
(***************************************************************************)
EXTENDS Integers, Sequences, FiniteSets, TLC

VARIABLES
    \* ---- fix_tool_arguments (argument normalizer)
    fix_pc,          \* "in": arguments chosen; "out": fix_tool_arguments returned
    fix_name,        \* the tool name passed
    fix_args,        \* the caller's argument dict (the object passed in)
    fix_out,         \* the dict returned
    \* ---- gemini_request (credential rotation gateway)
    pool,            \* config["gemini"]["api_keys"], the list get_api_keys returns
    gw_pc,           \* "idle" | "trying" | "returned"
    gw_stream,       \* the stream parameter of the current call
    keys_to_try,     \* the shuffled copy
    attempt_count,   \* attempt_count of the current call
    last_error,      \* last_error of the current call
    gw_attempts,     \* the HTTP attempts of the current call: <<[key, outcome]>>
    gw_ret,          \* the value returned by the current call
    gw_exhausted_before, \* history: an earlier call on this pool exhausted every key
    \* ---- execute_mcp_tool_loop
    loop_pc,         \* "start" | "gateway" | "tools" | "returned"
    max_iterations,  \* the max_iterations parameter
    iteration,       \* the loop variable of `for iteration in range(...)`
    contents,        \* the conversation sent to the Gateway
    function_calls,  \* the function calls of the current iteration still to run
    function_responses, \* the function responses of the current iteration
    tool_calls_list, \* the ToolCallRecords accumulated
    all_tool_results,\* the full result blocks accumulated
    loop_ret,        \* the returned tuple
    loop_tools_ok,   \* whether get_tools() returned a non-empty list
    loop_gateway_log,\* what each Gateway call of this invocation returned (of a
                     \* response with function calls, its functionCall parts only)
    loop_tool_invocations, \* number of call_tool invocations made
    \* ---- mcp_request (transport client)
    session_id,      \* the process-wide MCP session identifier (None = "none")
    mcp_pc,          \* "idle" | "sent" | "returned"
    mcp_req,         \* the request in flight
    mcp_ret,         \* what the caller of mcp_request got
    mcp_resp,        \* the response to the request (what requests.post met)
    \* ---- the request handlers sharing session_id and tools_cache
    tools_cache,     \* the process-wide tool list ("none" = None, "empty" = [])
    h_pc,            \* where each request handler stands
    h_kind,          \* the route each handler serves
    h_init,          \* what initialize_mcp did in each handler
    h_valid,         \* whether the request's body holds its required field
    h_notified,      \* notifications/initialized requests each handler has posted
    last_init,       \* how the latest initialize_mcp() ended: "none" | "failed" | "ok"
    \* ---- chat_stream.generate (one chat turn)
    turn_pc,         \* where the generator stands
    turn_cfg,        \* load_config() and the flags of effective_config
    turn_frames,     \* the SSE frames yielded so far
    mcp_ready,       \* mcp_ready
    turn_iter,       \* the tool loop's iteration
    turn_pending,    \* function calls of the current iteration still to run
    turn_records,    \* len(tool_calls_list): the tool invocations made
    turn_has_data,   \* check_data_availability(tool_calls_list)["has_data"]
    turn_failed,     \* the phase failures met in this turn
    turn_synth,      \* "none" | "error" | "stream": the synthesis request
    history,         \* data.get("history", []): the caller's prior turns
    synth_messages,  \* the messages of the synthesis gemini_request
    full_text,       \* full_text, as far as `data_request_link in full_text` sees it
    \* ---- SessionLogger (the log file of one session identifier)
    log_exists,      \* self.log_file.exists()
    log_file,        \* the content of the file, as a sequence of blocks
    lg_pc,           \* where each SessionLogger object stands
    lg_logged,       \* number of log() calls each object has made
    \* ---- one tool invocation of the loop, with its arguments
    inv_pc,          \* "requested" | "called" | "recorded"
    inv_name,        \* fc.get("name", "")
    inv_args,        \* tool_args = fc.get("args", {})
    inv_dispatched,  \* the "arguments" of the tools/call request sent
    inv_recorded,    \* tool_call_info["arguments"]
    \* ---- check_data_availability(tool_calls_list)
    da_pc,                   \* "idle" | "loop" | "done"
    da_calls,                \* tool_calls_list
    da_i,                    \* records the for loop has been through
    no_variables,
    has_any_observations,
    all_observations_empty,
    search_called,
    observations_called,
    da_ret,                  \* the dict returned
    \* ---- execute_kb_query: the sources of one response
    src_pc,          \* "idle" | "loop" | "done"
    grounding_chunks,
    src_i,           \* chunks the for loop has been through
    seen_titles,
    sources,
    \* ---- chat_stream: the query-parameter overrides of one turn
    ov_pc,            \* "gate" | "apply" | "kb" | "done"
    config_json,      \* what config.json holds (load_config())
    request_args,     \* request.args
    query_params,
    effective_config,
    kb_started,       \* the kb_start frame was yielded
    kb_queried,       \* execute_kb_query posted its request to the Gateway
    config_cache,     \* _config_cache: the dict load_config returns
    overrides_applied,\* an earlier turn of the process ran with overrides
    \* ---- build_thinking_config(thinking_value)
    th_pc,            \* "idle" | "call" | "returned"
    thinking_value,   \* the argument, a string as the sequence of its characters
    budget,           \* thinkingConfig.thinkingBudget of the dict returned
    \* ---- concurrent chat turns: the tool phase of each (locals of
    \* ---- execute_mcp_tool_loop and of generate, one set per turn)
    ct_pc,            \* "gateway" | "tools" | "waiting" | "emit" | "done"
    ct_iteration,     \* iteration
    ct_pending,       \* function calls of the pass still to run
    ct_list,          \* tool_calls_list of the loop
    ct_returned,      \* tool_calls_list as generate received it
    ct_frames,        \* the tool_call frames generate has yielded
    ct_made           \* the tool invocations each turn has made, in order

fixVars == <<fix_pc, fix_name, fix_args, fix_out>>
gwVars == <<pool, gw_pc, gw_stream, keys_to_try, attempt_count, last_error,
            gw_attempts, gw_ret, gw_exhausted_before>>
loopVars == <<loop_pc, max_iterations, iteration, contents, function_calls,
              function_responses, tool_calls_list, all_tool_results, loop_ret,
              loop_tools_ok, loop_gateway_log, loop_tool_invocations>>
mcpVars == <<session_id, mcp_pc, mcp_req, mcp_ret, mcp_resp>>
mcpCallVars == <<mcp_pc, mcp_req, mcp_ret, mcp_resp>>
sessVars == <<tools_cache, h_pc, h_kind, h_init, h_valid, h_notified, last_init>>
handlerVars == <<h_pc, h_kind, h_init, h_valid, h_notified, last_init>>
turnVars == <<turn_pc, turn_cfg, turn_frames, mcp_ready, turn_iter, turn_pending,
              turn_records, turn_has_data, turn_failed, turn_synth, history,
              synth_messages, full_text>>
logVars == <<log_exists, log_file, lg_pc, lg_logged>>
invVars == <<inv_pc, inv_name, inv_args, inv_dispatched, inv_recorded>>
dataVars == <<da_pc, da_calls, da_i, no_variables, has_any_observations,
              all_observations_empty, search_called, observations_called, da_ret>>
\* the state of the functions checked on their own
srcVars == <<src_pc, grounding_chunks, src_i, seen_titles, sources>>
ovVars == <<ov_pc, config_json, request_args, query_params, effective_config,
            kb_started, kb_queried, config_cache, overrides_applied>>
thVars == <<th_pc, thinking_value, budget>>
ctVars == <<ct_pc, ct_iteration, ct_pending, ct_list, ct_returned, ct_frames, ct_made>>
fnVars == <<dataVars, srcVars, ovVars, thVars, ctVars>>
vars == <<fixVars, gwVars, loopVars, mcpVars, sessVars, turnVars, logVars, invVars,
          fnVars>>

\* ---------------------------------------------------------------- bounds
MaxKeys == 3         \* largest credential pool explored
MaxIter == 2         \* largest max_iterations explored
MaxParts == 2        \* parts in one model response
MaxChunks == 2       \* most text chunks of one synthesis stream
MaxLogCalls == 2     \* most log() calls of one SessionLogger object
MaxFrames == 2       \* lines in one event-stream response
MaxRecords == 2      \* longest tool_calls_list given to check_data_availability
MaxGrounding == 3    \* most grounding chunks of one knowledge-base response
MaxValueLen == 3     \* longest thinking_value built from ValueChars

\* ---------------------------------------------------------------- helpers
Range(s) == {s[i] : i \in 1..Len(s)}

\* all orderings of a list (what random.shuffle can leave behind)
Orderings(s) == {[i \in 1..Len(s) |-> s[p[i]]] : p \in Permutations(1..Len(s))}

\* ================================================================
\* Python values of a tool-argument dict: None, a str, a list of str
\* ================================================================
None == [t |-> "none", s |-> "", l |-> <<>>]
Str(x) == [t |-> "str", s |-> x, l |-> <<>>]
List(q) == [t |-> "list", s |-> "", l |-> q]

\* Python truthiness of a value: None, "" and [] are falsy
Truthy(v) ==
    CASE v.t = "none" -> FALSE
      [] v.t = "str" -> v.s # ""
      [] v.t = "list" -> v.l # <<>>

\* dict.get(k): the value, or None when the key is absent
Get(args, k) == IF k \in DOMAIN args THEN args[k] ELSE None

\* args[k] = v
SetKey(args, k, v) == [x \in (DOMAIN args) \cup {k} |-> IF x = k THEN v ELSE args[x]]

\* ================================================================
\* fix_tool_arguments
\* ================================================================
ArgKeys == {"date", "date_range_start", "date_range_end", "places"}
ArgValues ==
    {None, Str(""), Str("range"), Str("latest"), Str("2020"), List(<<>>), List(<<"IN">>)}
ToolNames == {"get_observations", "search_indicators", "other_tool"}
ArgDicts == UNION {[D -> ArgValues] : D \in SUBSET ArgKeys}

\* (mutant) the `or args.get("date_range_end")` is missing
HasRangeParams_startOnly(args) == Truthy(Get(args, "date_range_start"))

\* has_range_params = args.get("date_range_start") or args.get("date_range_end")
HasRangeParams(args) ==
    Truthy(Get(args, "date_range_start")) \/ Truthy(Get(args, "date_range_end"))

\* Fix 1: if has_range_params and args.get("date") != "range": args["date"] = "range"
FixRangeDate(args) ==
    IF HasRangeParams(args) /\ Get(args, "date") # Str("range")
    THEN SetKey(args, "date", Str("range"))
    ELSE args

\* (mutant) no default is set
DefaultDate_none(args) == args

\* Fix 2: if "date" not in args: args["date"] = "latest"
DefaultDate(args) ==
    IF "date" \notin DOMAIN args THEN SetKey(args, "date", Str("latest")) ELSE args

\* (mutant) only a null date is removed
StripNulls_dateOnly(args) ==
    [k \in {x \in DOMAIN args : x # "date" \/ args[x] # None} |-> args[k]]

\* Fix 3: args = {k: v for k, v in args.items() if v is not None}
StripNulls(args) == [k \in {x \in DOMAIN args : args[x] # None} |-> args[k]]

\* if "places" in args and isinstance(args["places"], str): args["places"] = [args["places"]]
WrapPlaces(args) ==
    IF "places" \in DOMAIN args /\ args["places"].t = "str"
    THEN SetKey(args, "places", List(<<args["places"].s>>))
    ELSE args

fix_tool_arguments(name, arguments) ==
    LET a0 == arguments   \* args = arguments.copy()
        a1 == IF name = "get_observations"
              THEN StripNulls(DefaultDate(FixRangeDate(a0)))
              ELSE a0
    IN  IF name = "search_indicators" THEN WrapPlaces(a1) ELSE a1

FixIdle ==
    /\ fix_pc = "idle" /\ fix_name = "other_tool"
    /\ fix_args = <<>> /\ fix_out = <<>>

FixInit ==
    /\ fix_pc = "in"
    /\ fix_name \in ToolNames
    /\ fix_args \in ArgDicts
    /\ fix_out = <<>>

\* one call fix_tool_arguments(fix_name, fix_args)
FixCall ==
    /\ fix_pc = "in"
    /\ fix_pc' = "out"
    /\ fix_out' = fix_tool_arguments(fix_name, fix_args)
    /\ UNCHANGED <<fix_name, fix_args>>

\* ================================================================
\* properties of fix_tool_arguments (checked under SpecFix)
\* ================================================================
Present(args, k) == k \in DOMAIN args
\* present with a value Python takes for true (not null, not "", not [])
PresentTruthy(args, k) ==
    k \in DOMAIN args /\ args[k] \notin {None, Str(""), List(<<>>)}
NoNullValue(args) == \A k \in DOMAIN args : args[k].t # "none"
DateIs(args, x) == "date" \in DOMAIN args /\ args["date"] = Str(x)
Fixed == fix_pc = "out"

\* C7 as stated: for get_observations, if date_range_start or date_range_end
\* is present and date is not "range", the returned map has date = "range".
C7_AsStated ==
    (Fixed /\ fix_name = "get_observations"
        /\ (Present(fix_args, "date_range_start") \/ Present(fix_args, "date_range_end"))
        /\ ~DateIs(fix_args, "range"))
    => DateIs(fix_out, "range")

\* C7 (amended): for get_observations, if date_range_start or date_range_end
\* is present with a truthy value (not null, not empty) and date is not
\* "range", the returned map has date = "range".
C7_TruthyRangeForcesRange ==
    (Fixed /\ fix_name = "get_observations"
        /\ (PresentTruthy(fix_args, "date_range_start")
            \/ PresentTruthy(fix_args, "date_range_end"))
        /\ ~DateIs(fix_args, "range"))
    => DateIs(fix_out, "range")

C7_Witness ==
    /\ Fixed /\ fix_name = "get_observations"
    /\ ~Present(fix_args, "date_range_start")
    /\ PresentTruthy(fix_args, "date_range_end")
    /\ DateIs(fix_args, "latest")
    /\ DateIs(fix_out, "range")

\* C8 as stated: for get_observations, if date is absent the returned map has
\* date = "latest".
C8_AsStated ==
    (Fixed /\ fix_name = "get_observations" /\ ~Present(fix_args, "date"))
    => DateIs(fix_out, "latest")

\* C8 (amended): for get_observations, if date is absent and neither
\* date_range_start nor date_range_end is present with a truthy value, the
\* returned map has date = "latest"; if date is absent and one of them is,
\* it has date = "range".
C8_AbsentDateDefault ==
    (Fixed /\ fix_name = "get_observations" /\ ~Present(fix_args, "date")) =>
        IF PresentTruthy(fix_args, "date_range_start")
           \/ PresentTruthy(fix_args, "date_range_end")
        THEN DateIs(fix_out, "range")
        ELSE DateIs(fix_out, "latest")

C8_Witness ==
    /\ Fixed /\ fix_name = "get_observations" /\ ~Present(fix_args, "date")
    /\ Present(fix_args, "date_range_start") /\ fix_args["date_range_start"] = None
    /\ DateIs(fix_out, "latest")

\* C9 as stated: for every tool name and every argument map, the returned map
\* has no key whose value is null.
C9_AsStated == Fixed => NoNullValue(fix_out)

\* C9 (amended): for get_observations and every argument map, the returned
\* map has no key whose value is null; for any other tool name the null
\* values of the input are returned as they are.
C9_ObservationsNoNull ==
    Fixed =>
        IF fix_name = "get_observations"
        THEN NoNullValue(fix_out)
        ELSE \A k \in DOMAIN fix_args :
                fix_args[k] = None => (k \in DOMAIN fix_out /\ fix_out[k] = None)

C9_Witness ==
    /\ Fixed /\ fix_name = "get_observations"
    /\ Present(fix_args, "places") /\ fix_args["places"] = None
    /\ Present(fix_args, "date") /\ fix_args["date"] = None
    /\ DOMAIN fix_out = {}


\* C40: fix_tool_arguments is idempotent and leaves its input unchanged: for
\* every tool name and argument map, fixing the returned map again gives the
\* same map, and the map passed in is the same after the call as before.
C40_IdempotentInputKept ==
    [][(fix_pc = "in" /\ fix_pc' = "out")
          => /\ fix_tool_arguments(fix_name, fix_out') = fix_out'
             /\ fix_args' = fix_args]_vars

\* ================================================================
\* gemini_request: key rotation and retry
\* ================================================================
\* What one HTTP attempt (requests.post, then response.json() when buffered)
\* can come to: a status with a JSON body, a status 200 whose body is not
\* JSON, a timeout, or another exception of the request (connection error).
Outcomes == {"s429", "s500", "s503", "s200", "s400", "s200_notjson", "timeout", "connerr"}

StatusOf(o) ==
    CASE o = "s429" -> 429
      [] o = "s500" -> 500
      [] o = "s503" -> 503
      [] o = "s400" -> 400
      [] o \in {"s200", "s200_notjson"} -> 200
      [] OTHER -> 0       \* no response at all

\* requests.post itself raised (Timeout or any other exception)
PostRaised(o) == o \in {"timeout", "connerr"}

\* (mutant) the rate-limit check is missing
IsRateLimited_never(o) == FALSE

\* if response.status_code == 429
IsRateLimited(o) == ~PostRaised(o) /\ StatusOf(o) = 429

\* (mutant) only status 500 is taken for a transient server error
IsServerError_only500(o) == ~PostRaised(o) /\ StatusOf(o) = 500

\* if response.status_code in [500, 503]
IsServerError(o) == ~PostRaised(o) /\ StatusOf(o) \in {500, 503}

\* result = response.json() raises (buffered mode only; the streamed mode
\* hands the response to _stream_gemini_response without decoding it)
JsonRaised(o, stream) == ~stream /\ o = "s200_notjson"

\* the attempt ends in `continue`
Retried(o, stream) ==
    PostRaised(o) \/ IsRateLimited(o) \/ IsServerError(o) \/ JsonRaised(o, stream)

\* the value last_error is set to on the `continue` paths
CauseOf(o) ==
    CASE IsRateLimited(o) -> "Rate limited (429)"
      [] o = "s500" -> "Server error (500)"
      [] o = "s503" -> "Server error (503)"
      [] o = "timeout" -> "Request timeout"
      [] OTHER -> "str(e)"

\* keys = gemini_config.get("api_keys", [])
get_api_keys == pool

\* (mutant) the configured list itself is shuffled: random.shuffle(all_keys)
PoolAfterShuffle_inplace(all_keys, shuffled) == shuffled

\* keys_to_try = all_keys.copy(); random.shuffle(keys_to_try): what the
\* shuffle leaves in the configured list itself
PoolAfterShuffle(all_keys, shuffled) == all_keys

\* {"error": f"All {len(all_keys)} API keys failed. Last error: {last_error}"}
AllKeysFailed(all_keys, cause) ==
    [kind |-> "error", total_keys |-> Len(all_keys), cause |-> cause, status |-> 0]

NoKeysConfigured ==
    [kind |-> "error", total_keys |-> 0, cause |-> "No Gemini API keys configured", status |-> 0]

\* return result / return _stream_gemini_response(response, session_logger)
GatewaySuccess(o, stream) ==
    [kind |-> IF stream THEN "stream" ELSE "response",
     total_keys |-> 0, cause |-> "", status |-> StatusOf(o)]

NoReturn == [kind |-> "none", total_keys |-> 0, cause |-> "", status |-> 0]

\* (mutant) the loop stops one key short
MoreKeys_short(count, keys) == count + 1 < Len(keys)

\* the for loop goes on to another key
MoreKeys(count, keys) == count < Len(keys)

GwIdle ==
    /\ pool = <<>> /\ gw_pc = "idle" /\ gw_stream = FALSE /\ keys_to_try = <<>>
    /\ attempt_count = 0 /\ last_error = "None" /\ gw_attempts = <<>>
    /\ gw_ret = NoReturn /\ gw_exhausted_before = FALSE

GwInit ==
    /\ \E n \in 0..MaxKeys : pool = [i \in 1..n |-> i]
    /\ gw_pc = "idle" /\ gw_stream = FALSE /\ keys_to_try = <<>>
    /\ attempt_count = 0 /\ last_error = "None" /\ gw_attempts = <<>>
    /\ gw_ret = NoReturn /\ gw_exhausted_before = FALSE

\* gemini_request up to the first attempt: load the keys, shuffle a copy
GeminiRequestBegin ==
    /\ gw_pc \in {"idle", "returned"}
    /\ gw_exhausted_before' = (gw_exhausted_before \/ gw_ret.total_keys > 0)
    /\ \E stream \in BOOLEAN : gw_stream' = stream
    /\ attempt_count' = 0
    /\ last_error' = "None"
    /\ gw_attempts' = <<>>
    /\ LET all_keys == get_api_keys IN
       IF all_keys = <<>>
       THEN /\ gw_pc' = "returned"
            /\ gw_ret' = NoKeysConfigured
            /\ keys_to_try' = <<>>
            /\ UNCHANGED pool
       ELSE /\ \E shuffled \in Orderings(all_keys) :
                /\ keys_to_try' = shuffled
                /\ pool' = PoolAfterShuffle(all_keys, shuffled)
            /\ gw_pc' = "trying"
            /\ gw_ret' = NoReturn

\* one pass of `for api_key in keys_to_try`, and the code after the loop
\* when that pass was the last one
GeminiAttempt ==
    /\ gw_pc = "trying"
    /\ MoreKeys(attempt_count, keys_to_try)
    /\ \E o \in Outcomes :
        LET count == attempt_count + 1
            api_key == keys_to_try[count] IN
        /\ attempt_count' = count
        /\ gw_attempts' = Append(gw_attempts, [key |-> api_key, outcome |-> o])
        /\ IF Retried(o, gw_stream)
           THEN /\ last_error' = CauseOf(o)
                /\ IF MoreKeys(count, keys_to_try)
                   THEN gw_pc' = "trying" /\ gw_ret' = NoReturn
                   ELSE gw_pc' = "returned" /\ gw_ret' = AllKeysFailed(get_api_keys, CauseOf(o))
           ELSE /\ last_error' = last_error
                /\ gw_pc' = "returned"
                /\ gw_ret' = GatewaySuccess(o, gw_stream)
    /\ UNCHANGED <<pool, gw_stream, keys_to_try, gw_exhausted_before>>


\* ================================================================
\* properties of gemini_request (checked under SpecGateway)
\* ================================================================
PoolSize == Len(pool)
Attempted(i) == i \in 1..Len(gw_attempts)
RateLimitedAt(i) == StatusOf(gw_attempts[i].outcome) = 429
\* a 200 whose body the mode in use can hand back (buffered: a JSON body)
OkAt(i) ==
    /\ StatusOf(gw_attempts[i].outcome) = 200
    /\ (gw_stream \/ gw_attempts[i].outcome # "s200_notjson")
Surfaced == gw_ret # NoReturn
SucceededWith200 == gw_ret.kind \in {"response", "stream"} /\ gw_ret.status = 200

\* the attempts made so far follow the script "429 on the first N-1 keys,
\* 200 on the N-th"
RateLimitedThenOk ==
    \A i \in 1..Len(gw_attempts) :
        /\ i < PoolSize => RateLimitedAt(i)
        /\ i >= PoolSize => OkAt(i)

\* C1: for every pool of N >= 1 keys and every shuffle order, a call whose
\* first N-1 attempts get 429 and whose N-th attempt gets 200 returns that
\* successful response, after exactly N attempts, and returns no error value.
C1_RateLimitedThenOkSucceeds ==
    (gw_pc = "returned" /\ PoolSize >= 1 /\ RateLimitedThenOk)
        => (SucceededWith200 /\ Len(gw_attempts) = PoolSize /\ gw_ret.kind # "error")

C1_Witness ==
    /\ gw_pc = "returned" /\ PoolSize >= 2 /\ RateLimitedThenOk
    /\ Len(gw_attempts) = PoolSize /\ keys_to_try # pool
    /\ gw_ret.kind = "response"

\* C2: for every pool of N >= 1 keys, a call all of whose attempts get 429
\* makes exactly N attempts and then returns one aggregate error that names
\* the pool size N and the last cause (the rate limit).
C2_AllRateLimitedAggregateError ==
    (gw_pc = "returned" /\ PoolSize >= 1 /\ \A i \in 1..Len(gw_attempts) : RateLimitedAt(i))
        => /\ Len(gw_attempts) = PoolSize
           /\ gw_ret.kind = "error"
           /\ gw_ret.total_keys = PoolSize
           /\ gw_ret.cause = "Rate limited (429)"

C2_Witness ==
    /\ gw_pc = "returned" /\ PoolSize = MaxKeys
    /\ Len(gw_attempts) = PoolSize
    /\ \A i \in 1..Len(gw_attempts) : RateLimitedAt(i)
    /\ gw_ret.kind = "error"

\* the attempts the claim calls retryable: status 429, 500 or 503, a timeout,
\* or another exception of the request (a connection error; in the buffered
\* mode, a body that does not decode)
EndsRetryable(i) ==
    \/ StatusOf(gw_attempts[i].outcome) \in {429, 500, 503}
    \/ gw_attempts[i].outcome \in {"timeout", "connerr"}
    \/ (~gw_stream /\ gw_attempts[i].outcome = "s200_notjson")

\* C3: within one call the keys are attempted in a permutation of the pool,
\* each key at most once; after an attempt that ends retryable nothing is
\* surfaced while a key is left (the call goes on to the next key); and no
\* key is attempted after the first attempt that yields a non-retryable
\* response (that response is what the call returns).
C3_RotationOrder ==
    gw_pc \in {"trying", "returned"} /\ PoolSize >= 1 =>
        /\ Len(keys_to_try) = PoolSize /\ Range(keys_to_try) = Range(pool)
        /\ \A i \in 1..Len(gw_attempts) : gw_attempts[i].key = keys_to_try[i]
        /\ \A i, j \in 1..Len(gw_attempts) : i # j => gw_attempts[i].key # gw_attempts[j].key
        /\ \A i \in 1..Len(gw_attempts) : i < Len(gw_attempts) => EndsRetryable(i)
        /\ (gw_attempts # <<>> /\ EndsRetryable(Len(gw_attempts)) /\ Len(gw_attempts) < PoolSize)
              => (gw_pc = "trying" /\ ~Surfaced)
        /\ (gw_attempts # <<>> /\ ~EndsRetryable(Len(gw_attempts)))
              => (gw_pc = "returned" /\ gw_ret.kind \in {"response", "stream"})
        /\ (gw_pc = "trying") => ~Surfaced

C3_Witness ==
    /\ gw_pc = "returned" /\ PoolSize = MaxKeys /\ Len(gw_attempts) = 2
    /\ gw_attempts[1].outcome = "s503" /\ gw_attempts[2].outcome = "s400"
    /\ gw_attempts[1].key # pool[1]
    /\ gw_stream

\* C4: a call leaves the credential pool as it was, and every call, also one
\* made after calls that exhausted the pool, starts with every key of the
\* pool to try.
C4_PoolUnchanged ==
    [][/\ pool' = pool
       /\ (gw_pc' = "trying" /\ gw_pc # "trying")
            => (Len(keys_to_try') = Len(pool) /\ Range(keys_to_try') = Range(pool)
                /\ attempt_count' = 0)]_vars

C4_Witness ==
    /\ gw_exhausted_before /\ gw_pc = "returned" /\ PoolSize = MaxKeys
    /\ Len(gw_attempts) = PoolSize /\ gw_ret.kind = "response"

\* ================================================================
\* execute_mcp_tool_loop
\* ================================================================
\* the parts of a candidate: a functionCall part or a text part
FC(name) == [kind |-> "functionCall", name |-> name, text |-> ""]
Text(x) == [kind |-> "text", name |-> "", text |-> x]
Parts == {FC("get_observations"), FC("search_indicators"), Text("a"), Text("b")}
PartSeqs == UNION {[1..n -> Parts] : n \in 0..MaxParts}

\* what gemini_request(stream=False) hands back to the loop: an error value,
\* a response without candidates, or a response whose first candidate has parts
GatewayReturns ==
    {[kind |-> "error", parts |-> <<>>], [kind |-> "no_candidates", parts |-> <<>>]}
    \cup {[kind |-> "candidate", parts |-> ps] : ps \in PartSeqs}

\* the result_text of one call_tool invocation
ToolResultTexts == {"data", "Error: tool failed"}

\* "error" in result_text.lower()
ContainsError(result_text) == result_text = "Error: tool failed"

\* function_calls: the functionCall parts, in order
RECURSIVE FunctionCallsOf(_)
FunctionCallsOf(parts) ==
    IF parts = <<>> THEN <<>>
    ELSE IF Head(parts).kind = "functionCall"
         THEN <<Head(parts)>> \o FunctionCallsOf(Tail(parts))
         ELSE FunctionCallsOf(Tail(parts))

\* (mutant) text_response = part["text"] instead of +=
RECURSIVE TextResponseOf_last(_)
TextResponseOf_last(parts) ==
    IF parts = <<>> THEN <<>>
    ELSE IF Head(parts).kind = "text" /\ TextResponseOf_last(Tail(parts)) = <<>>
         THEN <<Head(parts).text>>
         ELSE TextResponseOf_last(Tail(parts))

\* text_response: the text of the text parts, concatenated in order
RECURSIVE TextResponseOf(_)
TextResponseOf(parts) ==
    IF parts = <<>> THEN <<>>
    ELSE IF Head(parts).kind = "functionCall"
         THEN TextResponseOf(Tail(parts))
         ELSE IF Head(parts).kind = "text"
              THEN <<Head(parts).text>> \o TextResponseOf(Tail(parts))
              ELSE TextResponseOf(Tail(parts))

\* tool_call_info
ToolCallInfo(tool_name, result_text) ==
    [name |-> tool_name, result |-> result_text,
     status |-> IF ContainsError(result_text) THEN "error" ELSE "success"]

\* f"Tool: {name}\nResult: {result}"
ResultBlock(tool_name, result_text) == [tool |-> tool_name, result |-> result_text]

\* the blocks built from tool_calls_list when the model is done
BlocksOfRecords(tcs) == [i \in 1..Len(tcs) |-> ResultBlock(tcs[i].name, tcs[i].result)]

\* the entry loop_gateway_log keeps of a Gateway return
Logged(response) ==
    IF \E i \in 1..Len(response.parts) : response.parts[i].kind = "functionCall"
    THEN [kind |-> response.kind,
          parts |-> SelectSeq(response.parts, LAMBDA q : q.kind = "functionCall")]
    ELSE response

\* (mutant) one pass too many: range(max_iterations + 1)
MoreIterations_extra(done, max) == done <= max

\* `for iteration in range(max_iterations)` has another pass
MoreIterations(done, max) == done < max

MaxIterationsText == <<"Max tool iterations reached">>

LoopReturn(results, tcs, final) == [results_text |-> results, tool_calls |-> tcs, final_text |-> final]
LoopNoReturn == LoopReturn(<<>>, <<>>, <<"(running)">>)

\* the history a chat request may carry: none, or the two messages of a
\* prior turn
Histories == {<<>>, <<"prior user message", "prior model answer">>}

\* the entries of the conversation the loop sends to the Gateway
UserMessage == [role |-> "user", kind |-> "user_message"]
ModelTurn == [role |-> "model", kind |-> "model_parts"]
FunctionResponses == [role |-> "user", kind |-> "function_responses"]

\* contents = []; contents.append(user message) (mutation: the caller's
\* history comes first)
InitialContents_withHistory(hist) ==
    [i \in 1..Len(hist) |-> [role |-> IF i % 2 = 1 THEN "user" ELSE "model",
                              kind |-> hist[i]]] \o <<UserMessage>>

\* contents = []; contents.append({"role": "user", "parts": [{"text":
\* user_message}]}): the history parameter is not used
InitialContents(hist) == <<UserMessage>>

LoopIdle ==
    /\ loop_pc = "idle" /\ max_iterations = 0 /\ iteration = 0 /\ contents = <<>>
    /\ function_calls = <<>> /\ function_responses = <<>> /\ tool_calls_list = <<>>
    /\ all_tool_results = <<>> /\ loop_ret = LoopNoReturn /\ loop_tools_ok = FALSE
    /\ loop_gateway_log = <<>> /\ loop_tool_invocations = 0

LoopInit ==
    /\ loop_pc = "start"
    /\ max_iterations \in 0..MaxIter
    /\ loop_tools_ok \in BOOLEAN
    /\ iteration = 0 /\ contents = <<>>
    /\ function_calls = <<>> /\ function_responses = <<>> /\ tool_calls_list = <<>>
    /\ all_tool_results = <<>> /\ loop_ret = LoopNoReturn
    /\ loop_gateway_log = <<>> /\ loop_tool_invocations = 0

\* the code after the for loop: "Max iterations reached"
MaxIterationsReturn(results) == LoopReturn(results, tool_calls_list', MaxIterationsText)

\* up to the for loop, for a history parameter hist: tools = get_tools();
\* contents = [user message]
LoopStart ==
    /\ loop_pc = "start"
    /\ IF ~loop_tools_ok
       THEN /\ loop_pc' = "returned"
            /\ loop_ret' = LoopReturn(<<>>, <<>>, <<"MCP tools not available">>)
            /\ UNCHANGED contents
       ELSE /\ \E hist \in Histories : contents' = InitialContents(hist)
            /\ IF MoreIterations(0, max_iterations)
               THEN loop_pc' = "gateway" /\ loop_ret' = LoopNoReturn
               ELSE loop_pc' = "returned" /\
                    loop_ret' = LoopReturn(all_tool_results, tool_calls_list, MaxIterationsText)
    /\ UNCHANGED <<max_iterations, iteration, function_calls, function_responses,
                   tool_calls_list, all_tool_results, loop_tools_ok,
                   loop_gateway_log, loop_tool_invocations>>

\* the texts of the two early exits
GatewayErrorText == <<"Error: ", "gateway error">>
NoCandidatesText == <<"No response from model">>

\* the early exit (mutation: the records of earlier passes are dropped)
EarlyExit_withoutRecords(tcs, text) == LoopReturn(<<>>, <<>>, text)

\* return "", tool_calls_list, f"Error: {response['error']}" and
\* return "", tool_calls_list, "No response from model"
EarlyExit(tcs, text) == LoopReturn(<<>>, tcs, text)

\* the head of one pass: the Gateway call and the inspection of its response
LoopGateway ==
    /\ loop_pc = "gateway"
    /\ \E response \in GatewayReturns :
        LET fcs == FunctionCallsOf(response.parts) IN
        /\ loop_gateway_log' = Append(loop_gateway_log, Logged(response))
        /\ CASE response.kind = "error" ->
                  /\ loop_pc' = "returned"
                  /\ loop_ret' = EarlyExit(tool_calls_list, GatewayErrorText)
                  /\ UNCHANGED <<contents, function_calls>>
             [] response.kind = "no_candidates" ->
                  /\ loop_pc' = "returned"
                  /\ loop_ret' = EarlyExit(tool_calls_list, NoCandidatesText)
                  /\ UNCHANGED <<contents, function_calls>>
             [] OTHER ->
                  IF fcs = <<>>
                  THEN /\ loop_pc' = "returned"
                       /\ loop_ret' = LoopReturn(BlocksOfRecords(tool_calls_list),
                                                 tool_calls_list,
                                                 TextResponseOf(response.parts))
                       /\ UNCHANGED <<contents, function_calls>>
                  ELSE /\ loop_pc' = "tools"
                       /\ contents' = Append(contents, ModelTurn)
                       /\ function_calls' = fcs
                       /\ loop_ret' = LoopNoReturn
    /\ UNCHANGED <<max_iterations, iteration, function_responses, tool_calls_list,
                   all_tool_results, loop_tools_ok, loop_tool_invocations>>

\* one pass of `for fc in function_calls`, and the end of the outer pass
\* (contents.append of the function responses, the next iteration or the
\* code after the loop) when that call was the last one requested
LoopCallTool ==
    /\ loop_pc = "tools"
    /\ function_calls # <<>>
    /\ \E result_text \in ToolResultTexts :
        LET tool_name == Head(function_calls).name IN
        /\ loop_tool_invocations' = loop_tool_invocations + 1
        /\ tool_calls_list' = Append(tool_calls_list, ToolCallInfo(tool_name, result_text))
        /\ all_tool_results' = Append(all_tool_results, ResultBlock(tool_name, result_text))
        /\ function_calls' = Tail(function_calls)
        /\ IF Tail(function_calls) # <<>>
           THEN /\ function_responses' = Append(function_responses, tool_name)
                /\ UNCHANGED <<contents, iteration, loop_pc, loop_ret>>
           ELSE /\ function_responses' = <<>>
                /\ contents' = Append(contents, FunctionResponses)
                /\ iteration' = iteration + 1
                /\ IF MoreIterations(iteration + 1, max_iterations)
                   THEN loop_pc' = "gateway" /\ loop_ret' = LoopNoReturn
                   ELSE loop_pc' = "returned" /\
                        loop_ret' = MaxIterationsReturn(all_tool_results')
    /\ UNCHANGED <<max_iterations, loop_tools_ok, loop_gateway_log>>


\* ================================================================
\* properties of execute_mcp_tool_loop (checked under SpecLoop)
\* ================================================================
GatewayCalls == Len(loop_gateway_log)
HasFunctionCall(r) ==
    r.kind = "candidate" /\ \E i \in 1..Len(r.parts) : r.parts[i].kind = "functionCall"
TextsOf(ps) == SelectSeq(ps, LAMBDA q : q.kind = "text")

\* every Gateway call made so far returned a response with a function call
AlwaysFunctionCall == \A i \in 1..GatewayCalls : HasFunctionCall(loop_gateway_log[i])

\* C5: for max_iterations >= 1, when every response of the model holds at
\* least one function call, the loop never makes more than max_iterations
\* Gateway calls, and it returns after exactly max_iterations of them, with
\* the results of every tool invocation made, in order, and the "max
\* iterations reached" text as final text.
C5_MaxIterationsSentinel ==
    (loop_tools_ok /\ max_iterations >= 1 /\ loop_pc # "start" /\ AlwaysFunctionCall) =>
        /\ GatewayCalls <= max_iterations
        /\ loop_pc = "returned" =>
            /\ GatewayCalls = max_iterations
            /\ loop_ret.final_text = <<"Max tool iterations reached">>
            /\ Len(loop_ret.tool_calls) = loop_tool_invocations
            /\ Len(loop_ret.results_text) = loop_tool_invocations
            /\ \A i \in 1..Len(loop_ret.results_text) :
                  /\ loop_ret.results_text[i].tool = loop_ret.tool_calls[i].name
                  /\ loop_ret.results_text[i].result = loop_ret.tool_calls[i].result

C5_Witness ==
    /\ loop_pc = "returned" /\ max_iterations = MaxIter /\ AlwaysFunctionCall
    /\ GatewayCalls = MaxIter /\ loop_tool_invocations > MaxIter
    /\ loop_ret.final_text = <<"Max tool iterations reached">>

\* C6: when the first response of the model holds no function call, the loop
\* returns at once: exactly one Gateway call was made, no tool was invoked,
\* the tool-call list is empty and the final text is the text of the
\* response's text parts, in order.
C6_NoFunctionCallReturnsAtOnce ==
    (GatewayCalls >= 1 /\ loop_gateway_log[1].kind = "candidate"
        /\ ~HasFunctionCall(loop_gateway_log[1])) =>
        /\ loop_pc = "returned"
        /\ GatewayCalls = 1
        /\ loop_tool_invocations = 0
        /\ loop_ret.tool_calls = <<>>
        /\ LET txt == TextsOf(loop_gateway_log[1].parts) IN
           /\ Len(loop_ret.final_text) = Len(txt)
           /\ \A i \in 1..Len(txt) : loop_ret.final_text[i] = txt[i].text

C6_Witness ==
    /\ loop_pc = "returned" /\ GatewayCalls = 1
    /\ loop_gateway_log[1] = [kind |-> "candidate", parts |-> <<Text("a"), Text("b")>>]
    /\ loop_ret.final_text = <<"a", "b">>
    /\ max_iterations = MaxIter
\* C22: the conversation the tool loop sends to the Gateway never holds the
\* caller's history: its first entry is the bare user message, the later
\* entries are the model turns and function-response turns of this
\* invocation, alternating, and after k completed iterations it has exactly
\* 1 + 2k entries (one more while the tools of iteration k + 1 run).
C22_ContentsFresh ==
    contents # <<>> =>
        /\ contents[1] = UserMessage
        /\ \A i \in 2..Len(contents) :
              contents[i] = IF i % 2 = 0 THEN ModelTurn ELSE FunctionResponses
        /\ Len(contents) = 1 + 2 * iteration + (IF loop_pc = "tools" THEN 1 ELSE 0)

C22_Witness ==
    /\ loop_pc = "gateway" /\ iteration = MaxIter - 1
    /\ Len(contents) = 2 * MaxIter - 1

\* C19: a tool invocation that reports an error does not end the loop: its
\* record is appended with status error, and when the loop returns, the
\* error text of every such invocation is part of the results text handed
\* to synthesis.
C19_ToolErrorInResultsText ==
    /\ Len(tool_calls_list) = loop_tool_invocations
    /\ \A i \in 1..Len(tool_calls_list) :
          ContainsError(tool_calls_list[i].result) =>
              /\ tool_calls_list[i].status = "error"
              /\ loop_pc = "returned" =>
                    \E j \in 1..Len(loop_ret.results_text) :
                        loop_ret.results_text[j] =
                            ResultBlock(tool_calls_list[i].name, tool_calls_list[i].result)

\* C34: when a Gateway call of the loop returns an error or an empty
\* candidate set, the loop ends at once: that call is the last Gateway call,
\* no tool is invoked after it, the condition is the final text, and every
\* record of the earlier passes is returned.
C34_EarlyExitAtOnce ==
    \A i \in 1..Len(loop_gateway_log) :
        loop_gateway_log[i].kind \in {"error", "no_candidates"} =>
            /\ i = Len(loop_gateway_log)
            /\ loop_pc = "returned"
            /\ loop_ret.final_text =
                  IF loop_gateway_log[i].kind = "error" THEN GatewayErrorText
                  ELSE NoCandidatesText
            /\ loop_ret.tool_calls = tool_calls_list
            /\ Len(tool_calls_list) = loop_tool_invocations
            /\ function_calls = <<>>

C34_Witness ==
    /\ loop_pc = "returned"
    /\ Len(loop_gateway_log) = 2
    /\ loop_gateway_log[2].kind = "no_candidates"
    /\ Len(loop_ret.tool_calls) = 2

\* C36: whenever the loop returns k >= 1 records, the results text it returns
\* holds exactly k Tool/Result blocks, one per record in invocation order,
\* on each of its exits.
C36_OneBlockPerRecord ==
    (loop_pc = "returned" /\ Len(loop_ret.tool_calls) >= 1) =>
        /\ Len(loop_ret.results_text) = Len(loop_ret.tool_calls)
        /\ \A i \in 1..Len(loop_ret.tool_calls) :
              loop_ret.results_text[i].tool = loop_ret.tool_calls[i].name


\* ================================================================
\* mcp_request
\* ================================================================
Methods == {"initialize", "notifications/initialized", "tools/list", "tools/call"}
SessionIds == {"s1", "s2"}
NoSession == "none"

\* the lines of an event-stream body, as response.iter_lines() yields them:
\*   result       data: {"result": <non-empty value>}
\*   result_empty data: {"result": null}      (a falsy result)
\*   error        data: {"error": ...}
\*   bad_json     data: <not JSON>
\*   not_data     a line without the "data: " prefix (event:, id:, a comment)
\*   scalar       data: 5                     (JSON, but not a container)
\*   bad_utf8     a line that is not UTF-8
FrameKinds == {"result", "result_empty", "error", "bad_json", "not_data", "scalar", "bad_utf8"}
FrameSeqs == UNION {[1..n -> FrameKinds] : n \in 0..MaxFrames}

\* the body of a response that is not an event stream:
\*   result_obj / error_obj  a JSON-RPC response object
\*   other_json              JSON without a result or error key ({} , [], null)
\*   not_json                response.json() raises
JsonBodies == {"result_obj", "error_obj", "other_json", "not_json"}

\* what the server (or the network) does with one POST
ServerBehaviours ==
    {[conn |-> c, header |-> NoSession, ctype |-> "none", body |-> "none", frames |-> <<>>] :
        c \in {"refused", "timeout"}}
    \cup {[conn |-> "ok", header |-> h, ctype |-> "json", body |-> b, frames |-> <<>>] :
        h \in SessionIds \cup {NoSession}, b \in JsonBodies}
    \cup {[conn |-> "ok", header |-> h, ctype |-> "sse", body |-> "none", frames |-> fs] :
        h \in SessionIds \cup {NoSession}, fs \in FrameSeqs}

\* the values mcp_request hands to its caller; frame is the index of the
\* data frame the value was taken from (0: none)
McpResult(why, i) == [kind |-> "result", why |-> why, frame |-> i]
McpError(why, i) == [kind |-> "error", why |-> why, frame |-> i]
McpOther == [kind |-> "other", why |-> "response.json()", frame |-> 0]
McpNoReturn == [kind |-> "none", why |-> "", frame |-> 0]

\* except requests.exceptions.ConnectionError: ... / except Exception as e: ...
Caught(exc) ==
    IF exc = "ConnectionError"
    THEN McpError("Cannot connect to MCP server", 0)
    ELSE McpError("str(e)", 0)

\* the scan of the event-stream lines from line i on, with `result` as set so far
\* (0: None; -1: a falsy result; k > 0: the result of frame k)
RECURSIVE ParseSse(_, _, _)
ParseSse(frames, i, result) ==
    IF i > Len(frames)
    THEN IF result > 0 THEN McpResult("sse", result) ELSE McpError("No result", 0)
    ELSE CASE frames[i] = "result" -> ParseSse(frames, i + 1, i)
           [] frames[i] = "result_empty" -> ParseSse(frames, i + 1, -1)
           [] frames[i] = "error" -> McpError("sse", i)
           [] frames[i] = "bad_json" -> ParseSse(frames, i + 1, result)
           [] frames[i] = "not_data" -> ParseSse(frames, i + 1, result)
           [] frames[i] = "scalar" -> Caught("TypeError")
           [] frames[i] = "bad_utf8" -> Caught("UnicodeDecodeError")

\* return response.json()
ParseJson(body) ==
    CASE body = "result_obj" -> McpResult("json", 0)
      [] body = "error_obj" -> McpError("json", 0)
      [] body = "other_json" -> McpOther
      [] body = "not_json" -> Caught("JSONDecodeError")

\* the value mcp_request returns for a server behaviour
McpReturnValue(is_notification, b) ==
    CASE b.conn = "refused" -> Caught("ConnectionError")
      [] b.conn = "timeout" -> Caught("Timeout")
      [] OTHER ->
           IF is_notification THEN McpResult("notification sent", 0)
           ELSE IF b.ctype = "sse" THEN ParseSse(b.frames, 1, 0)
           ELSE ParseJson(b.body)

\* session_id after the response headers were read
SessionAfter(current, is_notification, b) ==
    IF b.conn = "ok" /\ ~is_notification /\ b.header # NoSession
    THEN b.header
    ELSE current

\* no response yet
NoResponse ==
    [conn |-> "none", header |-> NoSession, ctype |-> "none", body |-> "none",
     frames |-> <<>>]

McpCallIdle ==
    /\ mcp_pc = "idle"
    /\ mcp_resp = NoResponse
    /\ mcp_req = [method |-> "none", is_notification |-> FALSE, header |-> NoSession]
    /\ mcp_ret = McpNoReturn

McpIdle == session_id = NoSession /\ McpCallIdle

McpInit == McpIdle

\* mcp_request up to requests.post: the envelope and the headers
McpSend ==
    /\ mcp_pc \in {"idle", "returned"}
    /\ \E method \in Methods, is_notification \in BOOLEAN :
        mcp_req' = [method |-> method, is_notification |-> is_notification,
                    header |-> session_id]
    /\ mcp_pc' = "sent"
    /\ mcp_ret' = McpNoReturn
    /\ mcp_resp' = NoResponse
    /\ UNCHANGED session_id

\* requests.post returns or raises; the rest of mcp_request
McpReceive ==
    /\ mcp_pc = "sent"
    /\ \E b \in ServerBehaviours :
        /\ session_id' = SessionAfter(session_id, mcp_req.is_notification, b)
        /\ mcp_ret' = McpReturnValue(mcp_req.is_notification, b)
        /\ mcp_resp' = b
    /\ mcp_pc' = "returned"
    /\ UNCHANGED mcp_req


\* ================================================================
\* properties of mcp_request (checked under SpecMcp)
\* ================================================================
McpReturned == mcp_pc = "returned"

\* C10: mcp_request never raises: for every method, params and notification
\* flag and for every behaviour of the server, the caller receives a value
\* that holds either a result or an error.
C10_ResultOrError == McpReturned => mcp_ret.kind \in {"result", "error"}

\* the frames of the response that hold a result key or an error key, and the
\* streams made of well-formed lines only
Decisive(frames) == {i \in 1..Len(frames) : frames[i] \in {"result", "error"}}
WellFormed(frames) ==
    \A i \in 1..Len(frames) : frames[i] \in {"result", "error", "bad_json", "not_data"}
FirstDecisive(frames) == CHOOSE i \in Decisive(frames) : \A j \in Decisive(frames) : i <= j

\* C31: for an event-stream response, mcp_request returns the first data
\* frame that holds a result key, or the error of a frame that holds an error
\* key, whichever comes first in the stream; the frames after that one do not
\* affect the value returned.
C31_FirstFrameDecides ==
    (/\ McpReturned /\ ~mcp_req.is_notification
     /\ mcp_resp.ctype = "sse" /\ WellFormed(mcp_resp.frames)
     /\ Decisive(mcp_resp.frames) # {})
        => LET k == FirstDecisive(mcp_resp.frames) IN
           mcp_ret = IF mcp_resp.frames[k] = "result" THEN McpResult("sse", k)
                     ELSE McpError("sse", k)


\* ================================================================
\* the request handlers and the process-wide MCP state
\* (list_tools, tool_call, chat_stream; initialize_mcp, get_tools)
\* ================================================================
\* the threads of the process: main() runs on "h1" before app.run; from then
\* on Flask serves each request on a thread of its own (threaded=True)
Handlers == {"h1", "h2"}
MainThread == "h1"
HandlerKinds == {"list_tools", "tool_call", "chat_stream"}

\* the tool lists the MCP server may report
ToolLists == {"T1", "T2"}
NoCache == "none"
\* what the "result" of a tools/list response holds:
\*   falsy_result  "result": null (only in a JSON body: the event-stream scan
\*                 turns a falsy result into the error "No result")
\*   no_tools_key  a result without a "tools" key
\*   empty         "tools": []
\*   T1, T2        a non-empty tool list
ToolsPayloads == {"falsy_result", "no_tools_key", "empty"} \cup ToolLists

\* the server behaviours the handlers are checked against: every connection
\* outcome, header and JSON body, and the event streams of at most one line
\* (a longer stream returns one of the same values to the caller)
SessionBehaviours == {b \in ServerBehaviours : Len(b.frames) <= 1}

\* if tools_cache: ...
CacheTruthy(cache) == cache \in ToolLists

\* the tail of get_tools: what tools_cache holds after the response r with
\* payload p
CacheAfter(cache, r, p) ==
    IF r.kind = "result" /\ p \notin {"falsy_result", "no_tools_key"}
    THEN p
    ELSE cache

\* the first statement of a route's body once the session check is over
BodyPc(kind) == IF kind = "tool_call" THEN "validate" ELSE "tools_check"

\* the required field of a route's body: "message" for chat_stream, "name"
\* for tool_call, none for list_tools
RequiresField(kind) == kind \in {"tool_call", "chat_stream"}

HandlersIdle ==
    /\ h_pc = [h \in Handlers |-> "idle"]
    /\ h_kind = [h \in Handlers |-> "list_tools"]
    /\ h_init = [h \in Handlers |-> "none"]
    /\ h_valid = [h \in Handlers |-> TRUE]
    /\ h_notified = [h \in Handlers |-> 0]
    /\ last_init = "none"

SessIdle == tools_cache = NoCache /\ HandlersIdle

\* main() is about to call initialize_mcp(); nothing is served yet
SessInit ==
    /\ tools_cache = NoCache
    /\ h_pc = [h \in Handlers |-> IF h = MainThread THEN "init_send" ELSE "idle"]
    /\ h_kind = [h \in Handlers |-> IF h = MainThread THEN "main" ELSE "list_tools"]
    /\ h_init = [h \in Handlers |-> "none"]
    /\ h_valid = [h \in Handlers |-> TRUE]
    /\ h_notified = [h \in Handlers |-> 0]
    /\ last_init = "none"

\* app.run is reached once main() is through its connection check
Serving == h_kind[MainThread] # "main" \/ h_pc[MainThread] = "done"

\* a request arrives on one of the three routes; chat_stream answers 400 at
\* once when the body lacks "message" (`if not data or not
\* data.get("message")`), the other routes start with the session check
HandlerBegin ==
    \E h \in Handlers, k \in HandlerKinds, valid \in BOOLEAN :
        /\ Serving
        /\ h_pc[h] \in {"idle", "done"}
        /\ ~RequiresField(k) => valid
        /\ h_pc' = [h_pc EXCEPT ![h] =
                       IF k = "chat_stream" /\ ~valid THEN "done" ELSE "start"]
        /\ h_kind' = [h_kind EXCEPT ![h] = k]
        /\ h_init' = [h_init EXCEPT ![h] = "none"]
        /\ h_valid' = [h_valid EXCEPT ![h] = valid]
        /\ h_notified' = [h_notified EXCEPT ![h] = 0]
        /\ UNCHANGED <<session_id, tools_cache, last_init>>

\* if not session_id: ... initialize_mcp()
HandlerCheckSession ==
    \E h \in Handlers :
        /\ h_pc[h] = "start"
        /\ h_pc' = [h_pc EXCEPT ![h] =
                       IF session_id = NoSession THEN "init_send" ELSE BodyPc(h_kind[h])]
        /\ UNCHANGED <<session_id, tools_cache, h_kind, h_init, h_valid, h_notified, last_init>>

\* initialize_mcp: mcp_request("initialize", ...) up to requests.post
InitSend ==
    \E h \in Handlers :
        /\ h_pc[h] = "init_send"
        /\ h_pc' = [h_pc EXCEPT ![h] = "init_wait"]
        /\ UNCHANGED <<session_id, tools_cache, h_kind, h_init, h_valid, h_notified, last_init>>

\* where a thread goes on after the initialize response (mutation: the
\* notification is sent whatever the response was)
AfterInitialize_notifyAlways(is_error, kind) == "notify"

\* `if "error" in result: return False` and what the caller does with a False
\* (list_tools and tool_call answer 503, main prints a warning, chat_stream
\* goes on to get_tools); else the notification is next
AfterInitialize(is_error, kind) ==
    IF ~is_error THEN "notify"
    ELSE IF kind = "chat_stream" THEN "tools_check" ELSE "done"

\* initialize_mcp: the response to initialize
InitReceive ==
    \E h \in Handlers, b \in SessionBehaviours :
        LET r == McpReturnValue(FALSE, b) IN
        /\ h_pc[h] = "init_wait"
        /\ session_id' = SessionAfter(session_id, FALSE, b)
        /\ \/ /\ r.kind = "error"
              /\ h_init' = [h_init EXCEPT ![h] = "false"]
              /\ h_pc' = [h_pc EXCEPT ![h] = AfterInitialize(TRUE, h_kind[h])]
              /\ last_init' = "failed"
           \/ /\ r.kind = "result" \/ r.kind = "other"
              /\ h_init' = [h_init EXCEPT ![h] = "true"]
              /\ h_pc' = [h_pc EXCEPT ![h] = AfterInitialize(FALSE, h_kind[h])]
              /\ UNCHANGED last_init
           \/ \* `"error" in result` raises when the body was the JSON null
              /\ r.kind = "other"
              /\ h_init' = [h_init EXCEPT ![h] = "raised"]
              /\ h_pc' = [h_pc EXCEPT ![h] =
                    IF h_kind[h] = "main" THEN "crashed" ELSE "done"]
              /\ last_init' = "failed"
        /\ UNCHANGED <<tools_cache, h_kind, h_valid, h_notified>>

\* initialize_mcp: mcp_request("notifications/initialized", {},
\* is_notification=True) and return True
InitNotify ==
    \E h \in Handlers, b \in SessionBehaviours :
        /\ h_pc[h] = "notify"
        /\ session_id' = SessionAfter(session_id, TRUE, b)
        /\ h_notified' = [h_notified EXCEPT ![h] = h_notified[h] + 1]
        /\ last_init' = "ok"
        /\ h_pc' = [h_pc EXCEPT ![h] = BodyPc(h_kind[h])]
        /\ UNCHANGED <<tools_cache, h_kind, h_init, h_valid>>

\* get_tools: if tools_cache: return tools_cache
GetToolsCheck ==
    \E h \in Handlers :
        /\ h_pc[h] = "tools_check"
        /\ h_pc' = [h_pc EXCEPT ![h] =
                       IF CacheTruthy(tools_cache) THEN "done" ELSE "tools_send"]
        /\ UNCHANGED <<session_id, tools_cache, h_kind, h_init, h_valid, h_notified, last_init>>

\* get_tools: mcp_request("tools/list", {}) up to requests.post
GetToolsSend ==
    \E h \in Handlers :
        /\ h_pc[h] = "tools_send"
        /\ h_pc' = [h_pc EXCEPT ![h] = "tools_wait"]
        /\ UNCHANGED <<session_id, tools_cache, h_kind, h_init, h_valid, h_notified, last_init>>

\* get_tools: the response to tools/list and the store into tools_cache
GetToolsReceive ==
    \E h \in Handlers, b \in SessionBehaviours, p \in ToolsPayloads :
        LET r == McpReturnValue(FALSE, b) IN
        /\ h_pc[h] = "tools_wait"
        /\ p = "falsy_result" => r.why = "json"
        /\ session_id' = SessionAfter(session_id, FALSE, b)
        /\ tools_cache' = CacheAfter(tools_cache, r, p)
        /\ \/ h_pc' = [h_pc EXCEPT ![h] = "done"]
           \/ \* `"result" in result` raises when the body was the JSON null
              /\ r.kind = "other"
              /\ h_pc' = [h_pc EXCEPT ![h] =
                    IF h_kind[h] = "main" THEN "crashed" ELSE "done"]
        /\ UNCHANGED <<h_kind, h_init, h_valid, h_notified, last_init>>

\* tool_call, after the session check: `if not data or not data.get("name"):
\* return ... 400`
ToolCallValidate ==
    \E h \in Handlers :
        /\ h_pc[h] = "validate"
        /\ h_pc' = [h_pc EXCEPT ![h] = IF h_valid[h] THEN "call_send" ELSE "done"]
        /\ UNCHANGED <<session_id, tools_cache, h_kind, h_init, h_valid, h_notified, last_init>>

\* tool_call: call_tool's mcp_request("tools/call", ...) up to requests.post
CallToolSend ==
    \E h \in Handlers :
        /\ h_pc[h] = "call_send"
        /\ h_pc' = [h_pc EXCEPT ![h] = "call_wait"]
        /\ UNCHANGED <<session_id, tools_cache, h_kind, h_init, h_valid, h_notified, last_init>>

\* tool_call: the response to tools/call
CallToolReceive ==
    \E h \in Handlers, b \in SessionBehaviours :
        /\ h_pc[h] = "call_wait"
        /\ session_id' = SessionAfter(session_id, FALSE, b)
        /\ h_pc' = [h_pc EXCEPT ![h] = "done"]
        /\ UNCHANGED <<tools_cache, h_kind, h_init, h_valid, h_notified, last_init>>


\* ================================================================
\* properties of the handlers (checked under SpecSession)
\* ================================================================
\* C11: a failed initialization leaves the session unset: whatever the server
\* answers to initialize, when initialize_mcp returns False for a handler that
\* found no session, session_id is still unset.
C11_FailedInitLeavesUnset ==
    [][\A h \in Handlers :
          (h_pc[h] = "init_wait" /\ session_id = NoSession /\ h_init'[h] = "false")
              => session_id' = NoSession]_vars

\* C12: at most one MCP session at a time: no initialize call succeeds while
\* a session identifier is held, so a second session is never established
\* beside the one held.
C12_NoSecondSession ==
    [][\A h \in Handlers :
          (h_pc[h] = "init_wait" /\ session_id # NoSession) => h_init'[h] # "true"]_vars

\* C13: once a non-empty tool list is stored in tools_cache, the stored value
\* never changes and no further tools/list request is posted.
C13_CacheStoredOnce ==
    [][CacheTruthy(tools_cache) =>
          /\ tools_cache' = tools_cache
          /\ \A h \in Handlers : ~(h_pc[h] = "tools_send" /\ h_pc'[h] = "tools_wait")]_vars

\* a handler posts an MCP request in this step
PostsMcpRequest(h) ==
    \/ h_pc[h] = "init_send" /\ h_pc'[h] = "init_wait"
    \/ h_pc[h] = "notify" /\ h_pc'[h] # "notify"
    \/ h_pc[h] = "tools_send" /\ h_pc'[h] = "tools_wait"
    \/ h_pc[h] = "call_send" /\ h_pc'[h] = "call_wait"

\* C32: after a failed initialization every later handler invocation that
\* uses the MCP server finds the handle uninitialized and issues the
\* initialize call again before its own MCP request: a handler that makes
\* its session check while the latest initialization is a failed one goes on
\* to initialize.
C32_ReinitializesAfterFailure ==
    [][\A h \in Handlers :
          (h_pc[h] = "start" /\ h_pc'[h] # "start" /\ last_init = "failed")
              => h_pc'[h] = "init_send"]_vars

\* the thread is through initialize_mcp (or never called it)
InitializeOver(h) == h_pc[h] \notin {"init_send", "init_wait", "notify"}

\* C33: the initialized notification is sent only after the initialize call
\* returned without error, exactly once per successful initialization, and
\* never when the initialize call failed.
C33_NotifiedOncePerSuccess ==
    \A h \in Handlers :
        /\ h_pc[h] = "notify" => (h_init[h] = "true" /\ h_notified[h] = 0)
        /\ InitializeOver(h) =>
              h_notified[h] = IF h_init[h] = "true" THEN 1 ELSE 0

C33_Witness ==
    \E h, g \in Handlers :
        /\ h # g
        /\ InitializeOver(h) /\ h_init[h] = "true" /\ h_notified[h] = 1
        /\ InitializeOver(g) /\ h_init[g] = "false" /\ h_notified[g] = 0

\* C23: a request missing a required field (a chat turn without message, an
\* execute-tool call without a tool name) is rejected at once: no MCP request
\* is posted on its behalf.
C23_RejectedBeforeAnyCall ==
    [][\A h \in Handlers :
          (RequiresField(h_kind[h]) /\ ~h_valid[h]) => ~PostsMcpRequest(h)]_vars


\* ================================================================
\* chat_stream.generate: one chat turn
\* ================================================================
\* execute_mcp_tool_loop(..., max_iterations: int = 5, ...); chat_stream
\* passes no max_iterations
DefaultMaxIterations == 5

\* an SSE frame: its kind, and for a tool_call or text frame its index
Frame(kind, n) == [kind |-> kind, n |-> n]

\* load_config() returned a non-empty dict or not; the enabled flags of
\* effective_config for the tool phase and the knowledge-base phase
TurnConfigs == [loaded : BOOLEAN, mcp_enabled : BOOLEAN, kb_enabled : BOOLEAN]

\* what execute_kb_query returns: empty on every failure (no store, no
\* keys, every key failed), else a response with or without sources
KbOutcomes == {"failed", "response", "response_sources"}

\* the frames of phase 2 (mutation: the sources after kb_complete)
KbFrames_sourcesLast(kb) ==
    <<Frame("kb_start", 0), Frame("kb_complete", 0)>>
        \o (IF kb = "response_sources" THEN <<Frame("kb_sources", 0)>> ELSE <<>>)

\* the frames of phase 2: kb_start, kb_sources if there are sources,
\* kb_complete
KbFrames(kb) ==
    <<Frame("kb_start", 0)>>
        \o (IF kb = "response_sources" THEN <<Frame("kb_sources", 0)>> ELSE <<>>)
        \o <<Frame("kb_complete", 0)>>

\* number of frames of a kind yielded so far
FramesOfKind(frames, kind) == Cardinality({i \in 1..Len(frames) : frames[i].kind = kind})

\* initialize_mcp() as one call: session_id afterwards for the behaviours of
\* the server on the initialize POST (b) and on the notification (bn)
InitializeSession(current, b, bn) ==
    IF McpReturnValue(FALSE, b).kind = "error"
    THEN SessionAfter(current, FALSE, b)
    ELSE SessionAfter(SessionAfter(current, FALSE, b), TRUE, bn)

\* where generate() goes on when execute_mcp_tool_loop returns through the
\* exit `how` (mutation: an early exit of the loop ends the turn)
AfterLoop_abortOnFailure(how) ==
    IF how \in {"final", "max_iterations"} THEN "emit_calls" ELSE "done"

\* where generate() goes on when execute_mcp_tool_loop returns through the
\* exit `how`: the loop returns a tuple on every exit, and generate() treats
\* them alike
AfterLoop(how) == "emit_calls"

\* execute_mcp_tool_loop has returned and the for loop over tool_calls_list
\* runs (mutation: the frames are yielded while the loop still runs)
TurnLoopReturned_inLoop == turn_pc \in {"emit_calls", "loop_tool", "loop_gateway"}

\* execute_mcp_tool_loop has returned and the for loop over tool_calls_list
\* runs
TurnLoopReturned == turn_pc = "emit_calls"

TurnIdle ==
    /\ turn_pc = "idle"
    /\ turn_cfg = [loaded |-> TRUE, mcp_enabled |-> TRUE, kb_enabled |-> FALSE]
    /\ turn_frames = <<>>
    /\ mcp_ready = FALSE
    /\ turn_iter = 0
    /\ turn_pending = 0
    /\ turn_records = 0
    /\ turn_has_data = FALSE
    /\ turn_failed = {}
    /\ turn_synth = "none"
    /\ history = <<>>
    /\ synth_messages = <<>>
    /\ full_text = "no_link"

\* the text chunks of the synthesis stream, by what they hold of
\* data_request_link: nothing of it, the whole link, its first half at the
\* end of the chunk, its second half at the start of the chunk
ChunkKinds == {"plain", "link", "link_head", "link_tail"}

\* full_text += text_chunk, for the three classes of text the test
\* `data_request_link in full_text` tells apart: "no_link", "has_link", and
\* "ends_in_head" (no link yet, the text ends with the first half of it)
TextPlus(text, chunk) ==
    CASE text = "has_link" -> "has_link"
      [] chunk = "link" -> "has_link"
      [] chunk = "link_head" -> "ends_in_head"
      [] chunk = "link_tail" -> IF text = "ends_in_head" THEN "has_link" ELSE "no_link"
      [] OTHER -> "no_link"

\* data_request_link in full_text
LinkIn(text) == text = "has_link"

\* the test that guards the link (mutation: without the look into full_text)
AppendsLink_unconditional(records, has_data, text) == records > 0 /\ ~has_data

\* if tool_calls_list: ... if not data_avail.get('has_data', True): ... if
\* data_request_link not in full_text
AppendsLink(records, has_data, text) == records > 0 /\ ~has_data /\ ~LinkIn(text)

\* messages=[{"role": "user", "parts": [{"text": synthesis_message}]}]
SynthesisMessages(hist) == <<"synthesis_message">>

\* a chat request with a message has arrived; the process may or may not hold
\* a session and a tool list from main() or from earlier requests
TurnInit ==
    /\ session_id \in SessionIds \cup {NoSession}
    /\ tools_cache \in {NoCache, "empty"} \cup ToolLists
    /\ turn_pc = "begin"
    /\ turn_cfg \in TurnConfigs
    /\ turn_frames = <<>>
    /\ mcp_ready = FALSE
    /\ turn_iter = 0
    /\ turn_pending = 0
    /\ turn_records = 0
    /\ turn_has_data = FALSE
    /\ turn_failed = {}
    /\ turn_synth = "none"
    /\ history \in Histories
    /\ synth_messages = <<>>
    /\ full_text = "no_link"

\* generate() up to effective_config: the session_id frame, load_config()
TurnBegin ==
    /\ turn_pc = "begin"
    /\ IF turn_cfg.loaded
       THEN /\ turn_frames' = <<Frame("session_id", 0)>>
            /\ turn_pc' = "session"
       ELSE /\ turn_frames' = <<Frame("session_id", 0), Frame("error", 0)>>
            /\ turn_pc' = "done"
    /\ UNCHANGED <<session_id, tools_cache, turn_cfg, mcp_ready, turn_iter, turn_pending,
                   turn_records, turn_has_data, turn_failed, turn_synth>>

\* if not session_id: ... initialize_mcp() ... else: mcp_ready = True
TurnEnsureSession ==
    /\ turn_pc = "session"
    /\ IF session_id # NoSession
       THEN /\ mcp_ready' = TRUE
            /\ turn_pc' = "tools"
            /\ UNCHANGED session_id
       ELSE \E b \in SessionBehaviours, bn \in SessionBehaviours :
              LET r == McpReturnValue(FALSE, b) IN
              /\ session_id' = InitializeSession(session_id, b, bn)
              /\ \/ /\ mcp_ready' = (r.kind # "error")
                    /\ turn_pc' = "tools"
                 \/ \* `"error" in result` raises on the JSON null
                    /\ r.kind = "other"
                    /\ mcp_ready' = FALSE
                    /\ turn_pc' = "aborted"
    /\ UNCHANGED <<tools_cache, turn_cfg, turn_frames, turn_iter, turn_pending,
                   turn_records, turn_has_data, turn_failed, turn_synth>>

\* tools = get_tools(); if tools: mcp_ready = True; then the branch into
\* phase 1: the mcp_start frame, or the mcp_skipped frame, or nothing
TurnGetTools ==
    /\ turn_pc = "tools"
    /\ \E b \in SessionBehaviours, p \in ToolsPayloads, raised \in BOOLEAN :
        LET r == McpReturnValue(FALSE, b)
            fetched == ~CacheTruthy(tools_cache)
            cache == IF fetched THEN CacheAfter(tools_cache, r, p) ELSE tools_cache
            ready == mcp_ready \/ CacheTruthy(cache)
        IN
        /\ p = "falsy_result" => r.why = "json"
        /\ raised => (fetched /\ r.kind = "other")
        /\ session_id' = IF fetched THEN SessionAfter(session_id, FALSE, b) ELSE session_id
        /\ tools_cache' = cache
        /\ mcp_ready' = ready
        /\ IF raised
           THEN /\ turn_pc' = "aborted"
                /\ UNCHANGED <<turn_frames, turn_failed>>
           ELSE IF turn_cfg.mcp_enabled /\ ready
           THEN /\ turn_frames' = Append(turn_frames, Frame("mcp_start", 0))
                /\ turn_pc' = "loop_start"
                /\ UNCHANGED turn_failed
           ELSE IF turn_cfg.mcp_enabled
           THEN /\ turn_frames' = Append(turn_frames, Frame("mcp_skipped", 0))
                /\ turn_failed' = turn_failed \cup {"no_tools"}
                /\ turn_pc' = "phase2"
           ELSE /\ turn_pc' = "phase2"
                /\ UNCHANGED <<turn_frames, turn_failed>>
    /\ UNCHANGED <<turn_cfg, turn_iter, turn_pending, turn_records, turn_has_data,
                   turn_synth>>

\* execute_mcp_tool_loop up to the for loop: tools = get_tools(); if not
\* tools: return "", [], "MCP tools not available"
TurnLoopStart ==
    /\ turn_pc = "loop_start"
    /\ \E b \in SessionBehaviours, p \in ToolsPayloads, raised \in BOOLEAN :
        LET r == McpReturnValue(FALSE, b)
            fetched == ~CacheTruthy(tools_cache)
            cache == IF fetched THEN CacheAfter(tools_cache, r, p) ELSE tools_cache
        IN
        /\ p = "falsy_result" => r.why = "json"
        /\ raised => (fetched /\ r.kind = "other")
        /\ session_id' = IF fetched THEN SessionAfter(session_id, FALSE, b) ELSE session_id
        /\ tools_cache' = cache
        /\ IF raised
           THEN turn_pc' = "aborted" /\ UNCHANGED turn_failed
           ELSE IF CacheTruthy(cache)
           THEN turn_pc' = "loop_gateway" /\ UNCHANGED turn_failed
           ELSE /\ turn_pc' = AfterLoop("no_tools")
                /\ turn_failed' = turn_failed \cup {"no_tools"}
    /\ UNCHANGED <<turn_cfg, turn_frames, mcp_ready, turn_iter, turn_pending,
                   turn_records, turn_has_data, turn_synth>>

\* one Gateway call of the loop and the branch on its response
TurnLoopGateway ==
    /\ turn_pc = "loop_gateway"
    /\ \/ /\ turn_pc' = AfterLoop("gateway_error")
          /\ turn_failed' = turn_failed \cup {"gateway_error"}
          /\ UNCHANGED turn_pending
       \/ /\ turn_pc' = AfterLoop("no_candidates")
          /\ turn_failed' = turn_failed \cup {"no_candidates"}
          /\ UNCHANGED turn_pending
       \/ \* no function call in the response: the final answer
          /\ turn_pc' = AfterLoop("final")
          /\ UNCHANGED <<turn_failed, turn_pending>>
       \/ \E n \in 1..MaxParts :
            /\ turn_pending' = n
            /\ turn_pc' = "loop_tool"
            /\ UNCHANGED turn_failed
    /\ UNCHANGED <<session_id, tools_cache, turn_cfg, turn_frames, mcp_ready, turn_iter,
                   turn_records, turn_has_data, turn_synth>>

\* one pass of `for fc in function_calls`: call_tool and the record; after
\* the last call of the iteration the loop goes on or returns "Max tool
\* iterations reached"
TurnLoopTool ==
    /\ turn_pc = "loop_tool"
    /\ \E b \in SessionBehaviours, raised \in BOOLEAN :
        /\ raised => McpReturnValue(FALSE, b).kind = "other"
        /\ session_id' = SessionAfter(session_id, FALSE, b)
        /\ IF raised
           THEN /\ turn_pc' = "aborted"
                /\ UNCHANGED <<turn_records, turn_pending, turn_iter>>
           ELSE /\ turn_records' = turn_records + 1
                /\ turn_pending' = turn_pending - 1
                /\ IF turn_pending > 1
                   THEN turn_pc' = "loop_tool" /\ UNCHANGED turn_iter
                   ELSE /\ turn_iter' = turn_iter + 1
                        /\ turn_pc' = IF turn_iter + 1 < DefaultMaxIterations
                                      THEN "loop_gateway"
                                      ELSE AfterLoop("max_iterations")
    /\ UNCHANGED <<tools_cache, turn_cfg, turn_frames, mcp_ready, turn_has_data,
                   turn_failed, turn_synth>>

\* for tc in tool_calls_list: yield the tool_call frame
TurnEmitToolCall ==
    /\ TurnLoopReturned
    /\ FramesOfKind(turn_frames, "tool_call") < turn_records
    /\ turn_frames' = Append(turn_frames,
                             Frame("tool_call", FramesOfKind(turn_frames, "tool_call") + 1))
    /\ UNCHANGED <<session_id, tools_cache, turn_pc, turn_cfg, mcp_ready, turn_iter,
                   turn_pending, turn_records, turn_has_data, turn_failed, turn_synth>>

\* the mcp_complete frame, check_data_availability, the data_status frame
TurnMcpComplete ==
    /\ TurnLoopReturned
    /\ FramesOfKind(turn_frames, "tool_call") = turn_records
    /\ \E has_data \in BOOLEAN :
        /\ has_data => turn_records > 0
        /\ turn_has_data' = has_data
    /\ turn_frames' = turn_frames \o <<Frame("mcp_complete", 0), Frame("data_status", 0)>>
    /\ turn_pc' = "phase2"
    /\ UNCHANGED <<session_id, tools_cache, turn_cfg, mcp_ready, turn_iter, turn_pending,
                   turn_records, turn_failed, turn_synth>>

\* phase 2: kb_start, execute_kb_query, kb_sources, kb_complete
TurnKnowledgeBase ==
    /\ turn_pc = "phase2"
    /\ IF turn_cfg.kb_enabled
       THEN \E kb \in KbOutcomes :
              /\ turn_frames' = turn_frames \o KbFrames(kb)
              /\ turn_failed' = IF kb = "failed" THEN turn_failed \cup {"kb_failed"}
                                ELSE turn_failed
       ELSE UNCHANGED <<turn_frames, turn_failed>>
    /\ turn_pc' = "phase3"
    /\ UNCHANGED <<session_id, tools_cache, turn_cfg, mcp_ready, turn_iter, turn_pending,
                   turn_records, turn_has_data, turn_synth>>

\* phase 3: synthesis_start, the synthesis request; an error dict ends the
\* generator after an error frame
TurnSynthesisStart ==
    /\ turn_pc = "phase3"
    /\ synth_messages' = SynthesisMessages(history)
    /\ \/ /\ turn_synth' = "error"
          /\ turn_frames' = turn_frames \o <<Frame("synthesis_start", 0), Frame("error", 0)>>
          /\ turn_pc' = "done"
       \/ /\ turn_synth' = "stream"
          /\ turn_frames' = Append(turn_frames, Frame("synthesis_start", 0))
          /\ turn_pc' = "streaming"
    /\ UNCHANGED <<session_id, tools_cache, turn_cfg, mcp_ready, turn_iter, turn_pending,
                   turn_records, turn_has_data, turn_failed>>

\* for text_chunk in stream_gen: yield the text frame
TurnStreamChunk ==
    /\ turn_pc = "streaming"
    /\ FramesOfKind(turn_frames, "text") < MaxChunks
    /\ \E chunk \in ChunkKinds : full_text' = TextPlus(full_text, chunk)
    /\ turn_frames' = Append(turn_frames, Frame("text", FramesOfKind(turn_frames, "text") + 1))
    /\ UNCHANGED <<session_id, tools_cache, turn_pc, turn_cfg, mcp_ready, turn_iter,
                   turn_pending, turn_records, turn_has_data, turn_failed, turn_synth>>

\* the stream ends: the data-request link is appended to full_text and sent
\* as one more text frame (index 0) when tools were called, no data was found
\* and the text lacks the link; or the stream raises and the except clause
\* yields an error frame
TurnStreamEnd ==
    /\ turn_pc = "streaming"
    /\ \/ IF AppendsLink(turn_records, turn_has_data, full_text)
          THEN /\ full_text' = TextPlus(full_text, "link")
               /\ turn_frames' = Append(turn_frames, Frame("text", 0))
          ELSE UNCHANGED <<full_text, turn_frames>>
       \/ /\ turn_frames' = Append(turn_frames, Frame("error", 0))
          /\ UNCHANGED full_text
    /\ turn_pc' = "tail"
    /\ UNCHANGED <<session_id, tools_cache, turn_cfg, mcp_ready, turn_iter, turn_pending,
                   turn_records, turn_has_data, turn_failed, turn_synth>>

\* get_chart_config, log_final_response, the terminal frame
TurnFinish ==
    /\ turn_pc = "tail"
    /\ turn_frames' = Append(turn_frames, Frame("done", 0))
    /\ turn_pc' = "done"
    /\ UNCHANGED <<session_id, tools_cache, turn_cfg, mcp_ready, turn_iter, turn_pending,
                   turn_records, turn_has_data, turn_failed, turn_synth>>


\* ================================================================
\* properties of a chat turn (checked under SpecTurn)
\* ================================================================
\* the place of a frame kind in the phase order (0: a kind the order does
\* not speak of: error, mcp_skipped)
PhaseRank(kind) ==
    CASE kind = "session_id" -> 1
      [] kind = "mcp_start" -> 2
      [] kind = "tool_call" -> 3
      [] kind = "mcp_complete" -> 4
      [] kind = "data_status" -> 5
      [] kind = "kb_start" -> 6
      [] kind = "kb_sources" -> 7
      [] kind = "kb_complete" -> 8
      [] kind = "synthesis_start" -> 9
      [] kind = "text" -> 10
      [] kind = "done" -> 11
      [] OTHER -> 0

HasFrame(kind) == FramesOfKind(turn_frames, kind) > 0

\* C14: in every chat-turn stream the session_id frame is the first frame;
\* the frames follow the phase order (mcp_start, tool_call frames,
\* mcp_complete, data_status, kb_start, kb_sources, kb_complete,
\* synthesis_start, text frames, terminal frame): no frame of an earlier
\* place comes after a frame of a later place, only tool_call and text
\* frames repeat, and a phase has started only when the phase before it that
\* was started has finished.
C14_PhaseOrder ==
    /\ turn_frames # <<>> => turn_frames[1].kind = "session_id"
    /\ \A i, j \in 1..Len(turn_frames) :
          LET ri == PhaseRank(turn_frames[i].kind)
              rj == PhaseRank(turn_frames[j].kind)
          IN (i < j /\ ri > 0 /\ rj > 0) =>
                /\ ri <= rj
                /\ ri = rj => turn_frames[i].kind \in {"tool_call", "text"}
    /\ (HasFrame("mcp_start") /\ (HasFrame("kb_start") \/ HasFrame("synthesis_start")))
          => (HasFrame("mcp_complete") /\ HasFrame("data_status"))
    /\ (HasFrame("kb_start") /\ HasFrame("synthesis_start")) => HasFrame("kb_complete")
    /\ HasFrame("done") => HasFrame("synthesis_start")

\* the tool loop of the turn is running: a Gateway call or a tool invocation
\* is the next step
InToolLoop == turn_pc \in {"loop_gateway", "loop_tool"}

\* C15: each tool_call frame is streamed as its record is produced: when the
\* (i+1)-th tool invocation or the next Gateway call of the loop starts, the
\* frames of all i records produced so far have been emitted.
C15_AsStated ==
    [][(InToolLoop /\ turn_records >= 1 /\ turn_pc' # turn_pc)
          => FramesOfKind(turn_frames, "tool_call") >= turn_records]_vars

\* C15 (amended): the tool_call frames are emitted only after the tool loop
\* has returned (no tool invocation and no Gateway call of the loop follows
\* a tool_call frame), one frame per record, in invocation order, and all of
\* them before mcp_complete.
C15_FramesAfterLoop ==
    /\ HasFrame("tool_call") => ~InToolLoop /\ turn_pc # "loop_start"
    /\ FramesOfKind(turn_frames, "tool_call") <= turn_records
    /\ \A i \in 1..Len(turn_frames) :
          turn_frames[i].kind = "tool_call" =>
              turn_frames[i].n = FramesOfKind(SubSeq(turn_frames, 1, i), "tool_call")
    /\ HasFrame("mcp_complete") => FramesOfKind(turn_frames, "tool_call") = turn_records

C15_Witness ==
    /\ turn_records >= 3 /\ turn_iter >= 2
    /\ FramesOfKind(turn_frames, "tool_call") = turn_records
    /\ HasFrame("mcp_complete")

\* the turn is over: the generator returned or an exception ended it
TurnOver == turn_pc \in {"done", "aborted"}

\* C18: a partial-phase failure does not abort the turn: once the tool phase
\* has failed (Gateway error, empty candidates, no tools) or the
\* knowledge-base query has failed, the turn is not ended by an exception,
\* and when it is over it has emitted synthesis_start and issued the
\* synthesis request.
C18_FailureStillSynthesizes ==
    turn_failed # {} =>
        /\ turn_pc # "aborted"
        /\ TurnOver => (HasFrame("synthesis_start") /\ turn_synth # "none")

C18_Witness ==
    /\ TurnOver
    /\ "gateway_error" \in turn_failed /\ "kb_failed" \in turn_failed
    /\ turn_records >= 1
    /\ HasFrame("synthesis_start") /\ turn_synth = "stream" /\ HasFrame("done")

\* C35: every chat-turn stream that emits synthesis_start ends with exactly
\* one terminal frame (done = true) as its last frame, whether the synthesis
\* succeeded, failed with every key exhausted, or failed while streaming.
C35_EndsWithDoneFrame ==
    (TurnOver /\ HasFrame("synthesis_start")) =>
        /\ FramesOfKind(turn_frames, "done") = 1
        /\ turn_frames[Len(turn_frames)].kind = "done"

\* C21: the synthesis Gateway request of a chat turn carries the history of
\* that turn in addition to the synthesis message.
C21_SynthesisCarriesHistory ==
    turn_synth # "none" =>
        /\ Len(synth_messages) = Len(history) + 1
        /\ SubSeq(synth_messages, 1, Len(history)) = history

\* the text frames that carry the data-request link appended by generate()
LinkFrames(frames) ==
    Cardinality({i \in 1..Len(frames) : frames[i] = Frame("text", 0)})

\* C24: the data-request link is appended at most once per turn, and never
\* when the streamed synthesis text already holds the link: a step that
\* appends it is the first to do so and starts from a text without the link.
C24_LinkAtMostOnce ==
    [][LinkFrames(turn_frames') > LinkFrames(turn_frames)
          => (LinkFrames(turn_frames) = 0 /\ ~LinkIn(full_text)
              /\ LinkFrames(turn_frames') = 1)]_vars

C24_Witness ==
    /\ turn_pc = "done"
    /\ LinkFrames(turn_frames) = 1
    /\ FramesOfKind(turn_frames, "text") = MaxChunks + 1
    /\ turn_records > 0 /\ ~turn_has_data

C14_Witness ==
    /\ turn_pc = "done"
    /\ FramesOfKind(turn_frames, "tool_call") >= 2
    /\ HasFrame("data_status") /\ HasFrame("kb_sources") /\ HasFrame("kb_complete")
    /\ FramesOfKind(turn_frames, "text") >= 2
    /\ turn_frames[Len(turn_frames)].kind = "done"


\* ================================================================
\* SessionLogger: the log file of one session identifier
\* ================================================================
\* the SessionLogger objects constructed for the one session identifier (a
\* chat turn and a follow-up turn that carries the same session_id; each is
\* constructed in its own request thread)
Loggers == {"a", "b"}

\* the blocks a log file is made of
Header(l) == [block |-> "SESSION LOG", by |-> l, n |-> 0]
Continuation(l) == [block |-> "CONTINUATION", by |-> l, n |-> 0]
Entry(l, n) == [block |-> "entry", by |-> l, n |-> n]
\* what is left of blocks that a write at offset 0 ran over in part
Torn == [block |-> "torn", by |-> "", n |-> 0]

\* s is an initial part of t
IsPrefix(s, t) == Len(s) <= Len(t) /\ SubSeq(t, 1, Len(s)) = s

\* with open(self.log_file, 'a') as f: the continuation marker (mutation:
\* the file is opened with 'w')
ResumeWrite_truncate(content, l) == <<Continuation(l)>>

\* with open(self.log_file, 'a') as f: the continuation marker goes to the end
ResumeWrite(content, l) == Append(content, Continuation(l))

\* the header written through a file opened with 'w': it goes to offset 0,
\* over the start of whatever other objects appended since the file was
\* truncated; a longer remainder is left behind torn
NewWrites(content, l) ==
    IF content = <<>>
    THEN {<<Header(l)>>}
    ELSE {<<Header(l)>>, <<Header(l), Torn>>}

LogIdle ==
    /\ log_exists = FALSE
    /\ log_file = <<>>
    /\ lg_pc = [l \in Loggers |-> "idle"]
    /\ lg_logged = [l \in Loggers |-> 0]

\* no log file for the session identifier yet, no object constructed
LogInit ==
    /\ log_exists = FALSE
    /\ log_file = <<>>
    /\ lg_pc = [l \in Loggers |-> "construct"]
    /\ lg_logged = [l \in Loggers |-> 0]

\* __init__ up to _write_header: if self.log_file.exists()
LogCheckExists ==
    \E l \in Loggers :
        /\ lg_pc[l] = "construct"
        /\ lg_pc' = [lg_pc EXCEPT ![l] = IF log_exists THEN "resume" ELSE "new"]
        /\ UNCHANGED <<log_exists, log_file, lg_logged>>

\* _write_header, the file exists: the continuation marker is appended
LogResume ==
    \E l \in Loggers :
        /\ lg_pc[l] = "resume"
        /\ log_file' = ResumeWrite(log_file, l)
        /\ lg_pc' = [lg_pc EXCEPT ![l] = "ready"]
        /\ UNCHANGED <<log_exists, lg_logged>>

\* _write_header, no file seen: open(self.log_file, 'w') creates the file or
\* truncates it
LogOpenNew ==
    \E l \in Loggers :
        /\ lg_pc[l] = "new"
        /\ log_exists' = TRUE
        /\ log_file' = <<>>
        /\ lg_pc' = [lg_pc EXCEPT ![l] = "write_new"]
        /\ UNCHANGED lg_logged

\* _write_header, no file seen: the header is written when the with block
\* closes the file
LogWriteNew ==
    \E l \in Loggers :
        /\ lg_pc[l] = "write_new"
        /\ log_file' \in NewWrites(log_file, l)
        /\ lg_pc' = [lg_pc EXCEPT ![l] = "ready"]
        /\ UNCHANGED <<log_exists, lg_logged>>

\* log(): the entry is appended to the file
LogEntry ==
    \E l \in Loggers :
        /\ lg_pc[l] = "ready"
        /\ lg_logged[l] < MaxLogCalls
        /\ lg_logged' = [lg_logged EXCEPT ![l] = @ + 1]
        /\ log_file' = Append(log_file, Entry(l, lg_logged[l] + 1))
        /\ UNCHANGED <<log_exists, lg_pc>>


\* ================================================================
\* properties of the session log (checked under SpecLog)
\* ================================================================
\* C16: the log of a session is append-only under any interleaving of
\* constructions and log calls for the same session identifier: every step
\* leaves the content written so far in place and only adds to its end.
C16_AppendOnly == [][IsPrefix(log_file, log_file')]_vars

\* C17: constructing a SessionLogger for a session whose log exists appends
\* a continuation marker and keeps all earlier content: a constructor that
\* runs when the file exists takes the resume branch, and its write leaves
\* the file in place with the marker added at the end.
C17_ResumeAppendsMarker ==
    [][\A l \in Loggers :
          /\ (lg_pc[l] = "construct" /\ lg_pc'[l] # "construct" /\ log_exists)
                => lg_pc'[l] = "resume"
          /\ (lg_pc[l] = "resume" /\ lg_pc'[l] # "resume")
                => /\ log_exists /\ log_exists'
                   /\ log_file' = Append(log_file, Continuation(l))]_vars

C17_Witness ==
    \E l, m \in Loggers :
        /\ l # m
        /\ Len(log_file) >= 3
        /\ log_file[1] = Header(l)
        /\ log_file[2] = Entry(l, 1)
        /\ log_file[3] = Continuation(m)
        /\ lg_pc[m] = "ready"


\* ================================================================
\* one tool invocation of execute_mcp_tool_loop, with its arguments
\* ================================================================
InvokeIdle ==
    /\ inv_pc = "idle" /\ inv_name = "other_tool"
    /\ inv_args = <<>> /\ inv_dispatched = <<>> /\ inv_recorded = <<>>

\* the model requested the call inv_name(inv_args)
InvokeInit ==
    /\ inv_pc = "requested"
    /\ inv_name \in ToolNames
    /\ inv_args \in ArgDicts
    /\ inv_dispatched = <<>>
    /\ inv_recorded = <<>>

\* call_tool(tool_name, tool_args): fixed_args = fix_tool_arguments(name,
\* arguments); mcp_request("tools/call", {"name": name, "arguments": fixed_args})
InvokeCallTool ==
    /\ inv_pc = "requested"
    /\ inv_dispatched' = fix_tool_arguments(inv_name, inv_args)
    /\ inv_pc' = "called"
    /\ UNCHANGED <<inv_name, inv_args, inv_recorded>>

\* tool_call_info = {"name": tool_name, "arguments": tool_args, ...}
InvokeRecord ==
    /\ inv_pc = "called"
    /\ inv_recorded' = inv_args
    /\ inv_pc' = "recorded"
    /\ UNCHANGED <<inv_name, inv_args, inv_dispatched>>


\* ================================================================
\* properties of a tool invocation (checked under SpecInvoke)
\* ================================================================
\* C20: the arguments stored in the ToolCallRecord of an invocation are the
\* repaired arguments, exactly those dispatched to the MCP server.
C20_RecordHoldsDispatchedArgs ==
    inv_pc = "recorded" => inv_recorded = inv_dispatched


\* ================================================================
\* specifications
\* ================================================================
\* ================================================================
\* check_data_availability
\* ================================================================
DataToolNames == {"search_indicators", "get_observations", "other"}

\* a record of tool_calls_list: its name and what the tests of the function
\* find in its result text
\*   no_match      one of 'no indicators found', '"variables": []',
\*                 'no matching', 'could not find', or '"indicators":'
\*                 together with '[]', is in the lowercased text
\*   populated     re.search(r'"time_series":\s*\[\s*\[', result_str) matches
\*   empty_marker  one of 'no data', '"observations": []',
\*                 '"time_series": []', '"time_series":[]', 'no observations'
\*                 is in the lowercased text
\* A text may meet any of the tests together (a result with one empty and
\* one populated series meets the last two).
ToolRecords ==
    [name : DataToolNames, no_match : BOOLEAN, populated : BOOLEAN, empty_marker : BOOLEAN]

ToolCallLists == UNION {[1..n -> ToolRecords] : n \in 0..MaxRecords}

NoDataReturn == [kind |-> "none"]

\* the aggregate (mutation: the observations decide, whatever the search found)
HasData_observationsOnly(searched, no_vars, observed, all_empty, has_any) ==
    has_any \/ (observed /\ ~all_empty)

\* if search_called and no_variables: has_data = False / elif
\* observations_called and all_observations_empty and not
\* has_any_observations: has_data = False / else: ...
HasData(searched, no_vars, observed, all_empty, has_any) ==
    IF searched /\ no_vars THEN FALSE
    ELSE IF observed /\ all_empty /\ ~has_any THEN FALSE
    ELSE has_any \/ (observed /\ ~all_empty)

\* the message for the user
DataMessage(has_data, no_vars, observed, all_empty) ==
    IF has_data THEN "None"
    ELSE IF no_vars THEN "no matching data variables"
    ELSE IF observed /\ all_empty THEN "no observations available"
    ELSE "no data for your query"

DataIdle ==
    /\ da_pc = "idle"
    /\ da_calls = <<>>
    /\ da_i = 0
    /\ no_variables = FALSE
    /\ has_any_observations = FALSE
    /\ all_observations_empty = TRUE
    /\ search_called = FALSE
    /\ observations_called = FALSE
    /\ da_ret = NoDataReturn

\* ---- execute_kb_query: source citations
\* a grounding chunk: whether it holds a non-empty "retrievedContext", and
\* the "title" and "uri" of that object ("missing": no such key)
Missing == "missing"
ChunkTitles == {Missing, "A", "B"}
ChunkUris == {Missing, "u1", "u2"}
NoContextChunk == [ctx |-> FALSE, title |-> Missing, uri |-> Missing]
GroundingChunks ==
    {NoContextChunk} \cup [ctx : {TRUE}, title : ChunkTitles, uri : ChunkUris]
ChunkLists == UNION {[1..n -> GroundingChunks] : n \in 0..MaxGrounding}

\* retrieved_context.get("title", "Unknown")
TitleOf(chunk) == IF chunk.title = Missing THEN "Unknown" ELSE chunk.title

\* retrieved_context.get("uri", "")
UriOf(chunk) == IF chunk.uri = Missing THEN "" ELSE chunk.uri

\* the test on a title (mutation: no deduplication)
KeepsTitle_always(title, seen) == TRUE

\* if title not in seen_titles
KeepsTitle(title, seen) == title \notin seen

SourcesIdle ==
    /\ src_pc = "idle"
    /\ grounding_chunks = <<>>
    /\ src_i = 0
    /\ seen_titles = {}
    /\ sources = <<>>

\* ---- chat_stream: query-parameter overrides
\* return config.get("query_param_key", "AISummit2026")
DefaultQueryParamKey == "AISummit2026"

\* config.json: not loaded (load_config() returns {}), or a file with the
\* sections "gemini", "knowledge_base" and "thinking"; query_param_key is
\* Missing, the empty string or a secret; api_keys is empty or not
StoredConfigs ==
    [loaded : {TRUE},
     query_param_key : {Missing, "", "s3cret"},
     mcp_model : {"m_mcp"}, kb_model : {"m_kb"},
     kb_enabled : BOOLEAN, store_id : BOOLEAN, api_keys : BOOLEAN,
     mcp_level : {"low"}, synthesis_level : {"low"}]
EmptyConfig ==
    [loaded |-> FALSE, query_param_key |-> Missing, mcp_model |-> Missing,
     kb_model |-> Missing, kb_enabled |-> FALSE, store_id |-> FALSE,
     api_keys |-> FALSE, mcp_level |-> Missing, synthesis_level |-> Missing]

\* request.args: each parameter Missing or a string
RequestArgs ==
    [key : {Missing, "", "wrong", "s3cret", DefaultQueryParamKey},
     model : {Missing, "m_new"},
     kb : {Missing, "", "true", "TRUE", "false", "yes"},
     mcp_thinking : {Missing, "high"},
     synthesis_thinking : {Missing, "high"}]

NoParams ==
    [model |-> Missing, kb_enabled |-> Missing, mcp_thinking |-> Missing,
     synthesis_thinking |-> Missing]
NoEffectiveConfig == [kind |-> "none"]

\* get_query_param_key()
ExpectedKey(config) ==
    IF config.query_param_key = Missing THEN DefaultQueryParamKey
    ELSE config.query_param_key

\* request.args.get("key", "")
SecretKey(args) == IF args.key = Missing THEN "" ELSE args.key

\* if secret_key == expected_key
KeyValid(args, config) == SecretKey(args) = ExpectedKey(config)

\* the four override parameters read from request.args, None values removed
\* (a removed parameter is Missing)
ParamsOf(args) ==
    [model |-> args.model, kb_enabled |-> args.kb, mcp_thinking |-> args.mcp_thinking,
     synthesis_thinking |-> args.synthesis_thinking]

\* truth value of query_params.get(name)
Given(value) == value \notin {Missing, ""}

\* value.lower() == "true"
LowerIsTrue(value) == value \in {"true", "TRUE"}

\* the values of a configuration the turn runs with
ConfigValues(config) ==
    [kind |-> "config", mcp_model |-> config.mcp_model, kb_model |-> config.kb_model,
     kb_enabled |-> config.kb_enabled, mcp_level |-> config.mcp_level,
     synthesis_level |-> config.synthesis_level]

\* apply_query_overrides(config, query_params)
ApplyQueryOverrides(config, params) ==
    IF params = NoParams THEN ConfigValues(config)
    ELSE [kind |-> "config",
          mcp_model |-> IF Given(params.model) THEN params.model ELSE config.mcp_model,
          kb_model |-> IF Given(params.model) THEN params.model ELSE config.kb_model,
          kb_enabled |-> IF Given(params.kb_enabled) THEN LowerIsTrue(params.kb_enabled)
                         ELSE config.kb_enabled,
          mcp_level |-> IF Given(params.mcp_thinking) THEN params.mcp_thinking
                        ELSE config.mcp_level,
          synthesis_level |-> IF Given(params.synthesis_thinking)
                              THEN params.synthesis_thinking
                              ELSE config.synthesis_level]

\* execute_kb_query gets as far as its Gateway request: it reads
\* load_config(), not the effective configuration
KbQueryIssued(config) == config.kb_enabled /\ config.store_id /\ config.api_keys

\* load_config(): the cached dict when there is one (the file's mtime is
\* unchanged), else the file's content, which becomes the cache; {} when the
\* file cannot be read
LoadConfig(cache, file) == IF cache.loaded THEN cache ELSE file

\* what the assignments of apply_query_overrides leave in the cached dict
\* (mutation: effective is the cached dict itself, not a copy of it)
CachedAfter_aliased(config, params) ==
    IF params = NoParams THEN config
    ELSE LET e == ApplyQueryOverrides(config, params) IN
         [config EXCEPT !.mcp_model = e.mcp_model, !.kb_model = e.kb_model,
                        !.kb_enabled = e.kb_enabled, !.mcp_level = e.mcp_level,
                        !.synthesis_level = e.synthesis_level]

\* effective = copy.deepcopy(config): the assignments write to the copy
CachedAfter(config, params) == config

OverrideIdle ==
    /\ ov_pc = "idle"
    /\ config_json = EmptyConfig
    /\ request_args = [key |-> Missing, model |-> Missing, kb |-> Missing,
                        mcp_thinking |-> Missing, synthesis_thinking |-> Missing]
    /\ query_params = NoParams
    /\ effective_config = NoEffectiveConfig
    /\ kb_started = FALSE
    /\ kb_queried = FALSE
    /\ config_cache = EmptyConfig
    /\ overrides_applied = FALSE

\* the process has started (_config_cache = None) and a chat turn with a
\* message arrives
OverrideInit ==
    /\ ov_pc = "gate"
    /\ config_json \in StoredConfigs \cup {EmptyConfig}
    /\ request_args \in RequestArgs
    /\ query_params = NoParams
    /\ effective_config = NoEffectiveConfig
    /\ kb_started = FALSE
    /\ kb_queried = FALSE
    /\ config_cache = EmptyConfig
    /\ overrides_applied = FALSE

\* chat_stream: the key check (get_query_param_key calls load_config) and the
\* extraction of the override parameters
OverrideGate ==
    LET config == LoadConfig(config_cache, config_json) IN
    /\ ov_pc = "gate"
    /\ config_cache' = config
    /\ query_params' = IF KeyValid(request_args, config) THEN ParamsOf(request_args)
                        ELSE NoParams
    /\ ov_pc' = "apply"
    /\ UNCHANGED <<config_json, request_args, effective_config, kb_started, kb_queried,
                   overrides_applied>>

\* generate: config = load_config(); `if not config:` ends the turn with an
\* error frame; effective_config = apply_query_overrides(config, query_params)
OverrideApply ==
    LET config == LoadConfig(config_cache, config_json) IN
    /\ ov_pc = "apply"
    /\ IF config.loaded
       THEN /\ effective_config' = ApplyQueryOverrides(config, query_params)
            /\ config_cache' = CachedAfter(config, query_params)
            /\ overrides_applied' = (overrides_applied \/ query_params # NoParams)
            /\ ov_pc' = "kb"
       ELSE /\ ov_pc' = "done"
            /\ config_cache' = config
            /\ UNCHANGED <<effective_config, overrides_applied>>
    /\ UNCHANGED <<config_json, request_args, query_params, kb_started, kb_queried>>

\* generate, phase 2: kb_enabled of the effective configuration decides on
\* kb_start and the call of execute_kb_query, which reads load_config()
OverrideKb ==
    /\ ov_pc = "kb"
    /\ kb_started' = effective_config.kb_enabled
    /\ kb_queried' = (effective_config.kb_enabled
                        /\ KbQueryIssued(LoadConfig(config_cache, config_json)))
    /\ ov_pc' = "done"
    /\ UNCHANGED <<config_json, request_args, query_params, effective_config,
                   config_cache, overrides_applied>>

\* the turn is over and the next chat turn of the process arrives
OverrideNextTurn ==
    /\ ov_pc = "done"
    /\ request_args' \in RequestArgs
    /\ query_params' = NoParams
    /\ effective_config' = NoEffectiveConfig
    /\ kb_started' = FALSE
    /\ kb_queried' = FALSE
    /\ ov_pc' = "gate"
    /\ UNCHANGED <<config_json, config_cache, overrides_applied>>

\* ---- build_thinking_config
\* level_map
BudgetMinimal == 128
BudgetLow == 1024
BudgetMedium == 8192
BudgetHigh == 24576
\* budget = max(0, min(24576, budget))
MaxBudget == 24576
\* except ValueError: budget = 1024
DefaultBudget == 1024

LevelMinimal == <<"m", "i", "n", "i", "m", "a", "l">>
LevelLow == <<"l", "o", "w">>
LevelMedium == <<"m", "e", "d", "i", "u", "m">>
LevelHigh == <<"h", "i", "g", "h">>
Levels == {LevelMinimal, LevelLow, LevelMedium, LevelHigh}

\* level_map[thinking_value]
LevelMap(value) ==
    CASE value = LevelMinimal -> BudgetMinimal
      [] value = LevelLow -> BudgetLow
      [] value = LevelMedium -> BudgetMedium
      [] value = LevelHigh -> BudgetHigh

\* the arguments explored: the levels, a level in capitals, numbers around
\* the upper limit, and every string of up to MaxValueLen of ValueChars
Digits == {"0", "1", "2", "3", "4", "5", "6", "7", "8", "9"}
ValueChars == {"0", "7", "-", "+", " ", "_", ".", "e"}
ThinkingValues ==
    Levels
    \cup {<<"H", "I", "G", "H">>,
          <<"2", "4", "5", "7", "6">>,
          <<"2", "4", "5", "7", "7">>,
          <<"1", "0", "0", "0", "0", "0">>}
    \cup UNION {[1..n -> ValueChars] : n \in 0..MaxValueLen}

DigitValue(c) ==
    CASE c = "0" -> 0 [] c = "1" -> 1 [] c = "2" -> 2 [] c = "3" -> 3 [] c = "4" -> 4
      [] c = "5" -> 5 [] c = "6" -> 6 [] c = "7" -> 7 [] c = "8" -> 8 [] c = "9" -> 9

\* int(str) first strips the whitespace at both ends
RECURSIVE StripLeft(_)
StripLeft(s) == IF s # <<>> /\ Head(s) = " " THEN StripLeft(Tail(s)) ELSE s
RECURSIVE StripRight(_)
StripRight(s) ==
    IF s # <<>> /\ s[Len(s)] = " " THEN StripRight(SubSeq(s, 1, Len(s) - 1)) ELSE s
Strip(s) == StripRight(StripLeft(s))

\* ... then takes one optional sign
Unsigned(s) == IF s # <<>> /\ Head(s) \in {"+", "-"} THEN Tail(s) ELSE s
Sign(s) == IF s # <<>> /\ Head(s) = "-" THEN -1 ELSE 1

\* ... then wants decimal digits, single underscores between digits allowed
DigitString(s) ==
    /\ s # <<>>
    /\ \A i \in 1..Len(s) : s[i] \in Digits \cup {"_"}
    /\ s[1] # "_" /\ s[Len(s)] # "_"
    /\ \A i \in 1..(Len(s) - 1) : ~(s[i] = "_" /\ s[i + 1] = "_")
RECURSIVE DigitsValue(_)
DigitsValue(s) ==
    IF s = <<>> THEN 0
    ELSE IF s[Len(s)] = "_" THEN DigitsValue(SubSeq(s, 1, Len(s) - 1))
    ELSE 10 * DigitsValue(SubSeq(s, 1, Len(s) - 1)) + DigitValue(s[Len(s)])

\* int(thinking_value): the integer, or ValueError
IntOf(s) ==
    LET body == Unsigned(Strip(s)) IN
    IF DigitString(body)
    THEN [ok |-> TRUE, value |-> Sign(Strip(s)) * DigitsValue(body)]
    ELSE [ok |-> FALSE, value |-> 0]

Min(a, b) == IF a < b THEN a ELSE b
Max(a, b) == IF a > b THEN a ELSE b

\* the clamp (mutation: the upper limit only)
Clamp_upperOnly(n) == Min(MaxBudget, n)

\* max(0, min(24576, budget))
Clamp(n) == Max(0, Min(MaxBudget, n))

\* the budget build_thinking_config computes for a string
BudgetOf(value) ==
    IF value \in Levels THEN LevelMap(value)
    ELSE IF IntOf(value).ok THEN Clamp(IntOf(value).value)
    ELSE DefaultBudget

NoBudget == -1

ThinkingIdle ==
    /\ th_pc = "idle"
    /\ thinking_value = <<>>
    /\ budget = NoBudget

ThinkingInit ==
    /\ th_pc = "call"
    /\ thinking_value \in ThinkingValues
    /\ budget = NoBudget

\* build_thinking_config(thinking_value)
BuildThinkingConfig ==
    /\ th_pc = "call"
    /\ budget' = BudgetOf(thinking_value)
    /\ th_pc' = "returned"
    /\ UNCHANGED thinking_value

\* ---- concurrent chat turns (app.run(threaded=True)): the tool phase
\* the threads that run generate() at the same time
Turns == {"t1", "t2"}

\* the k-th tool invocation of turn t; its record holds the result of that
\* invocation
Invocation(t, k) == [turn |-> t, n |-> k]

\* where a record goes (mutation: one list shared by the turns, as a module
\* global would be)
AppendRecord_shared(lists, t, rec) == [u \in Turns |-> Append(lists[u], rec)]

\* tool_calls_list.append(tool_call_info): tool_calls_list is a local of the
\* call of execute_mcp_tool_loop
AppendRecord(lists, t, rec) == [lists EXCEPT ![t] = Append(@, rec)]

ConcIdle ==
    /\ ct_pc = [t \in Turns |-> "idle"]
    /\ ct_iteration = [t \in Turns |-> 0]
    /\ ct_pending = [t \in Turns |-> 0]
    /\ ct_list = [t \in Turns |-> <<>>]
    /\ ct_returned = [t \in Turns |-> <<>>]
    /\ ct_frames = [t \in Turns |-> <<>>]
    /\ ct_made = [t \in Turns |-> <<>>]

\* both turns are at the head of their tool loop: tool_calls_list = []
ConcInit ==
    /\ ct_pc = [t \in Turns |-> "gateway"]
    /\ ct_iteration = [t \in Turns |-> 0]
    /\ ct_pending = [t \in Turns |-> 0]
    /\ ct_list = [t \in Turns |-> <<>>]
    /\ ct_returned = [t \in Turns |-> <<>>]
    /\ ct_frames = [t \in Turns |-> <<>>]
    /\ ct_made = [t \in Turns |-> <<>>]

\* the Gateway call of a pass: the loop returns (error, no candidates, final
\* answer) or the response requests function calls
ConcGateway ==
    \E t \in Turns :
        /\ ct_pc[t] = "gateway"
        /\ \/ /\ ct_pc' = [ct_pc EXCEPT ![t] = "emit"]
              /\ ct_returned' = [ct_returned EXCEPT ![t] = ct_list[t]]
              /\ UNCHANGED ct_pending
           \/ \E n \in 1..MaxParts :
                 /\ ct_pending' = [ct_pending EXCEPT ![t] = n]
                 /\ ct_pc' = [ct_pc EXCEPT ![t] = "tools"]
                 /\ UNCHANGED ct_returned
        /\ UNCHANGED <<ct_iteration, ct_list, ct_frames, ct_made>>

\* result = call_tool(tool_name, tool_args, ...): the request is posted
ConcInvoke ==
    \E t \in Turns :
        /\ ct_pc[t] = "tools"
        /\ ct_made' = [ct_made EXCEPT ![t] = Append(@, Invocation(t, Len(@) + 1))]
        /\ ct_pc' = [ct_pc EXCEPT ![t] = "waiting"]
        /\ UNCHANGED <<ct_iteration, ct_pending, ct_list, ct_returned, ct_frames>>

\* call_tool returns: the record is appended; after the last call of the
\* pass the next pass starts or the loop returns at max_iterations
ConcRecord ==
    \E t \in Turns :
        LET rec == ct_made[t][Len(ct_made[t])]
            lists == AppendRecord(ct_list, t, rec) IN
        /\ ct_pc[t] = "waiting"
        /\ ct_list' = lists
        /\ ct_pending' = [ct_pending EXCEPT ![t] = @ - 1]
        /\ IF ct_pending[t] > 1
           THEN /\ ct_pc' = [ct_pc EXCEPT ![t] = "tools"]
                /\ UNCHANGED <<ct_iteration, ct_returned>>
           ELSE /\ ct_iteration' = [ct_iteration EXCEPT ![t] = @ + 1]
                /\ IF ct_iteration[t] + 1 < MaxIter
                   THEN /\ ct_pc' = [ct_pc EXCEPT ![t] = "gateway"]
                        /\ UNCHANGED ct_returned
                   ELSE /\ ct_pc' = [ct_pc EXCEPT ![t] = "emit"]
                        /\ ct_returned' = [ct_returned EXCEPT ![t] = lists[t]]
        /\ UNCHANGED <<ct_frames, ct_made>>

\* for tc in tool_calls_list: yield the tool_call frame
ConcEmit ==
    \E t \in Turns :
        /\ ct_pc[t] = "emit"
        /\ Len(ct_frames[t]) < Len(ct_returned[t])
        /\ ct_frames' = [ct_frames EXCEPT ![t] = Append(@, ct_returned[t][Len(@) + 1])]
        /\ UNCHANGED <<ct_pc, ct_iteration, ct_pending, ct_list, ct_returned, ct_made>>

\* yield mcp_complete
ConcFinish ==
    \E t \in Turns :
        /\ ct_pc[t] = "emit"
        /\ Len(ct_frames[t]) = Len(ct_returned[t])
        /\ ct_pc' = [ct_pc EXCEPT ![t] = "done"]
        /\ UNCHANGED <<ct_iteration, ct_pending, ct_list, ct_returned, ct_frames, ct_made>>

\* the call, with the locals as the function initializes them
DataInit ==
    /\ da_pc = "loop"
    /\ da_calls \in ToolCallLists
    /\ da_i = 0
    /\ no_variables = FALSE
    /\ has_any_observations = FALSE
    /\ all_observations_empty = TRUE
    /\ search_called = FALSE
    /\ observations_called = FALSE
    /\ da_ret = NoDataReturn

\* one pass of `for tc in tool_calls_list`
DataRecord ==
    /\ da_pc = "loop"
    /\ da_i < Len(da_calls)
    /\ LET tc == da_calls[da_i + 1] IN
        /\ search_called' = (search_called \/ tc.name = "search_indicators")
        /\ no_variables' =
              (no_variables \/ (tc.name = "search_indicators" /\ tc.no_match))
        /\ observations_called' = (observations_called \/ tc.name = "get_observations")
        /\ has_any_observations' =
              (has_any_observations \/ (tc.name = "get_observations" /\ tc.populated))
        /\ all_observations_empty' =
              IF tc.name = "get_observations" /\ (tc.populated \/ ~tc.empty_marker)
              THEN FALSE
              ELSE all_observations_empty
    /\ da_i' = da_i + 1
    /\ UNCHANGED <<da_pc, da_calls, da_ret>>

\* after the loop: the aggregate and the dict returned
DataReturn ==
    /\ da_pc = "loop"
    /\ da_i = Len(da_calls)
    /\ LET has_data == HasData(search_called, no_variables, observations_called,
                               all_observations_empty, has_any_observations) IN
        da_ret' = [kind |-> "dict",
                   has_data |-> has_data,
                   no_variables_found |-> no_variables,
                   no_observations_found |-> all_observations_empty,
                   search_called |-> search_called,
                   observations_called |-> observations_called,
                   message |-> DataMessage(has_data, no_variables, observations_called,
                                           all_observations_empty)]
    /\ da_pc' = "done"
    /\ UNCHANGED <<da_calls, da_i, no_variables, has_any_observations,
                   all_observations_empty, search_called, observations_called>>

\* a response with candidates arrived: sources = [], seen_titles = set()
SourcesInit ==
    /\ src_pc = "loop"
    /\ grounding_chunks \in ChunkLists
    /\ src_i = 0
    /\ seen_titles = {}
    /\ sources = <<>>

\* one pass of `for chunk in grounding_chunks`
SourcesChunk ==
    /\ src_pc = "loop"
    /\ src_i < Len(grounding_chunks)
    /\ LET chunk == grounding_chunks[src_i + 1] IN
        IF chunk.ctx /\ KeepsTitle(TitleOf(chunk), seen_titles)
        THEN /\ seen_titles' = seen_titles \cup {TitleOf(chunk)}
             /\ sources' = Append(sources, [title |-> TitleOf(chunk), uri |-> UriOf(chunk)])
        ELSE UNCHANGED <<seen_titles, sources>>
    /\ src_i' = src_i + 1
    /\ UNCHANGED <<src_pc, grounding_chunks>>

\* return {"response": result_text, "sources": sources}
SourcesReturn ==
    /\ src_pc = "loop"
    /\ src_i = Len(grounding_chunks)
    /\ src_pc' = "done"
    /\ UNCHANGED <<grounding_chunks, src_i, seen_titles, sources>>


\* ================================================================
\* properties of the source citations (checked under SpecSources)
\* ================================================================
\* the chunks that bring a title not met before, in the order of the chunks
FirstOccurrences ==
    {i \in 1..Len(grounding_chunks) :
        /\ grounding_chunks[i].ctx
        /\ \A j \in 1..(i - 1) :
              grounding_chunks[j].ctx
                  => TitleOf(grounding_chunks[j]) # TitleOf(grounding_chunks[i])}
NthFirst(k) ==
    CHOOSE i \in FirstOccurrences : Cardinality({j \in FirstOccurrences : j <= i}) = k

\* C27: for every sequence of grounding chunks, the source list returned has
\* pairwise distinct titles and holds exactly the titles of the chunks, each
\* with the uri of its first occurrence, in order of first occurrence.
C27_SourcesDeduplicated ==
    src_pc = "done" =>
        /\ \A i, j \in 1..Len(sources) : i # j => sources[i].title # sources[j].title
        /\ Len(sources) = Cardinality(FirstOccurrences)
        /\ \A k \in 1..Len(sources) :
              sources[k] = [title |-> TitleOf(grounding_chunks[NthFirst(k)]),
                            uri |-> UriOf(grounding_chunks[NthFirst(k)])]

C27_Witness ==
    /\ src_pc = "done"
    /\ Len(grounding_chunks) = 3
    /\ grounding_chunks[1] = [ctx |-> TRUE, title |-> "A", uri |-> "u1"]
    /\ grounding_chunks[2] = [ctx |-> TRUE, title |-> "B", uri |-> "u1"]
    /\ grounding_chunks[3] = [ctx |-> TRUE, title |-> "A", uri |-> "u2"]
    /\ sources = <<[title |-> "A", uri |-> "u1"], [title |-> "B", uri |-> "u1"]>>


\* ================================================================
\* properties of the query-parameter overrides (checked under SpecOverride)
\* ================================================================
\* the turn got its effective configuration
Configured == effective_config # NoEffectiveConfig

\* C28: overrides are gated by the shared secret: a turn that carries no key
\* or a key different from the configured secret runs with the unmodified
\* configuration, whatever its override parameters are.
C28_OverridesNeedTheSecret ==
    (Configured /\ (request_args.key = Missing \/ request_args.key # ExpectedKey(config_json)))
        => effective_config = ConfigValues(config_json)

\* C29: with a valid key the knowledge-base toggle takes effect for the turn:
\* kb=true makes the turn issue the knowledge-base query when a store
\* identifier (and a Gateway key) is configured, kb=false suppresses it,
\* whatever the stored enabled flag is.
C29_KbToggleTakesEffect ==
    (ov_pc = "done" /\ Configured /\ KeyValid(request_args, config_json)) =>
        /\ (request_args.kb = "true" /\ config_json.store_id /\ config_json.api_keys)
              => kb_queried
        /\ request_args.kb = "false" => ~kb_queried

\* C38: apply_query_overrides never modifies the cached configuration: the
\* cache, once loaded, holds the stored values, and a turn that runs without
\* overrides, whatever turns came before it, runs with the stored model,
\* knowledge-base flag and thinking levels.
C38_CacheNeverModified ==
    /\ config_cache \in {EmptyConfig, config_json}
    /\ (Configured /\ query_params = NoParams)
          => effective_config = ConfigValues(config_json)

C38_Witness ==
    /\ overrides_applied /\ ov_pc = "done" /\ Configured
    /\ query_params = NoParams /\ request_args.key = Missing
    /\ effective_config = ConfigValues(config_json)
    /\ config_cache = config_json


\* ================================================================
\* properties of concurrent chat turns (checked under SpecConcurrent)
\* ================================================================
\* C37: concurrent chat turns do not see each other's tool-loop state: under
\* every interleaving the records returned to a turn and the tool_call
\* frames of its stream are exactly the records of that turn's own tool
\* invocations, in the order it made them.
C37_TurnsIsolated ==
    \A t \in Turns :
        /\ ct_pc[t] \in {"emit", "done"} => ct_returned[t] = ct_made[t]
        /\ ct_frames[t] = SubSeq(ct_made[t], 1, Len(ct_frames[t]))
        /\ ct_pc[t] = "done" => ct_frames[t] = ct_made[t]

C37_Witness ==
    /\ ct_pc["t1"] = "done" /\ Len(ct_frames["t1"]) >= 2
    /\ ct_pc["t2"] = "waiting" /\ Len(ct_list["t2"]) >= 1


\* ================================================================
\* properties of build_thinking_config (checked under SpecThinking)
\* ================================================================
ThinkingReturned == th_pc = "returned"

\* an integer literal: an optional sign and decimal digits, nothing else
IntegerLiteral(s) ==
    /\ Unsigned(s) # <<>>
    /\ \A i \in 1..Len(Unsigned(s)) : Unsigned(s)[i] \in Digits
RECURSIVE LiteralDigits(_)
LiteralDigits(s) ==
    IF s = <<>> THEN 0 ELSE 10 * LiteralDigits(SubSeq(s, 1, Len(s) - 1)) + DigitValue(s[Len(s)])
LiteralValue(s) == Sign(s) * LiteralDigits(Unsigned(s))

\* a decimal literal of integral value: an integer literal, a point, zeros
DecimalLiteral(s) ==
    \E k \in 2..(Len(s) - 1) :
        /\ s[k] = "."
        /\ IntegerLiteral(SubSeq(s, 1, k - 1))
        /\ \A i \in (k + 1)..Len(s) : s[i] = "0"
DecimalValue(s) ==
    LiteralValue(SubSeq(s, 1, (CHOOSE k \in 2..(Len(s) - 1) : s[k] = ".") - 1))

ClampedInto(n) == IF n < 0 THEN 0 ELSE IF n > BudgetHigh THEN BudgetHigh ELSE n

\* a string that int() has no reading for, whatever the notation: it holds a
\* character besides digits, signs, blanks and underscores
ForeignCharacter(s) ==
    \E i \in 1..Len(s) : s[i] \notin Digits \cup {"+", "-", " ", "_"}

LevelsMapped ==
    /\ thinking_value = LevelMinimal => budget = BudgetMinimal
    /\ thinking_value = LevelLow => budget = BudgetLow
    /\ thinking_value = LevelMedium => budget = BudgetMedium
    /\ thinking_value = LevelHigh => budget = BudgetHigh

\* C30 as stated: the levels map to 128, 1024, 8192, 24576; every literal
\* numeric string, in integer or in decimal notation, maps to its value
\* clamped into [0, 24576]; every other string that int() has no reading for
\* maps to 1024; the budget is always within [0, 24576].
C30_AsStated ==
    ThinkingReturned =>
        /\ LevelsMapped
        /\ IntegerLiteral(thinking_value)
              => budget = ClampedInto(LiteralValue(thinking_value))
        /\ DecimalLiteral(thinking_value)
              => budget = ClampedInto(DecimalValue(thinking_value))
        /\ (thinking_value \notin Levels /\ ForeignCharacter(thinking_value)
              /\ ~DecimalLiteral(thinking_value)) => budget = BudgetLow
        /\ budget \in 0..BudgetHigh

\* C30: the levels map to 128, 1024, 8192, 24576; every integer literal (an
\* optional sign and decimal digits) maps to its value clamped into
\* [0, 24576]; every other string that holds a character besides digits,
\* signs, blanks and underscores (a decimal or exponent notation, a word)
\* maps to 1024; the budget is always within [0, 24576].
C30_BudgetMapping ==
    ThinkingReturned =>
        /\ LevelsMapped
        /\ IntegerLiteral(thinking_value)
              => budget = ClampedInto(LiteralValue(thinking_value))
        /\ (thinking_value \notin Levels /\ ForeignCharacter(thinking_value))
              => budget = BudgetLow
        /\ budget \in 0..BudgetHigh

C30_Witness ==
    /\ ThinkingReturned
    /\ thinking_value = <<"2", "4", "5", "7", "7">>
    /\ budget = BudgetHigh


\* ================================================================
\* properties of check_data_availability (checked under SpecData)
\* ================================================================
DataReturned == da_pc = "done"

\* the records of a tool, and the get_observations records that are empty:
\* an empty marker and no populated series
RecordsOf(name) == {i \in 1..Len(da_calls) : da_calls[i].name = name}
EmptyObservation(i) == da_calls[i].empty_marker /\ ~da_calls[i].populated

\* C25: for every tool-call list, if at least one get_observations record
\* shows a populated time series, the function yields has_data = true.
C25_PopulatedGivesData ==
    (DataReturned /\ \E i \in RecordsOf("get_observations") : da_calls[i].populated)
        => da_ret.has_data

\* C26: the function yields has_data = false whenever a search_indicators
\* record indicates an empty match set (and then no_variables_found = true)
\* or every get_observations record is empty; a list holding only such a
\* search record is one case of the first.
C26_EmptyGivesNoData ==
    DataReturned =>
        /\ (\E i \in RecordsOf("search_indicators") : da_calls[i].no_match)
              => (~da_ret.has_data /\ da_ret.no_variables_found)
        /\ (\A i \in RecordsOf("get_observations") : EmptyObservation(i))
              => ~da_ret.has_data

C26_Witness ==
    /\ DataReturned
    /\ Len(da_calls) = 1
    /\ da_calls[1].name = "search_indicators" /\ da_calls[1].no_match
    /\ ~da_ret.has_data /\ da_ret.no_variables_found

\* C39: the function yields has_data = true only if at least one
\* get_observations record of the list shows a populated time series; a list
\* whose observation records are all errors or otherwise unclassified
\* (neither populated nor marked empty) never yields has_data = true.
C39_DataOnlyIfPopulated ==
    (DataReturned /\ da_ret.has_data)
        => \E i \in RecordsOf("get_observations") : da_calls[i].populated


\* none of the functions checked on their own is running
FnIdle == DataIdle /\ SourcesIdle /\ OverrideIdle /\ ThinkingIdle /\ ConcIdle

InitFix == FixInit /\ GwIdle /\ LoopIdle /\ McpIdle /\ SessIdle /\ TurnIdle /\ LogIdle /\ InvokeIdle /\ FnIdle
NextFix == FixCall /\ UNCHANGED <<gwVars, loopVars, mcpVars, sessVars, turnVars, logVars, invVars, fnVars>>
SpecFix == InitFix /\ [][NextFix]_vars

InitGateway == FixIdle /\ GwInit /\ LoopIdle /\ McpIdle /\ SessIdle /\ TurnIdle /\ LogIdle /\ InvokeIdle /\ FnIdle
NextGateway ==
    \/ GeminiRequestBegin /\ UNCHANGED <<fixVars, loopVars, mcpVars, sessVars, turnVars, logVars, invVars, fnVars>>
    \/ GeminiAttempt /\ UNCHANGED <<fixVars, loopVars, mcpVars, sessVars, turnVars, logVars, invVars, fnVars>>
SpecGateway == InitGateway /\ [][NextGateway]_vars

InitLoop == FixIdle /\ GwIdle /\ LoopInit /\ McpIdle /\ SessIdle /\ TurnIdle /\ LogIdle /\ InvokeIdle /\ FnIdle
NextLoop ==
    \/ LoopStart /\ UNCHANGED <<fixVars, gwVars, mcpVars, sessVars, turnVars, logVars, invVars, fnVars>>
    \/ LoopGateway /\ UNCHANGED <<fixVars, gwVars, mcpVars, sessVars, turnVars, logVars, invVars, fnVars>>
    \/ LoopCallTool /\ UNCHANGED <<fixVars, gwVars, mcpVars, sessVars, turnVars, logVars, invVars, fnVars>>
SpecLoop == InitLoop /\ [][NextLoop]_vars

InitMcp == FixIdle /\ GwIdle /\ LoopIdle /\ McpInit /\ SessIdle /\ TurnIdle /\ LogIdle /\ InvokeIdle /\ FnIdle
NextMcp ==
    \/ McpSend /\ UNCHANGED <<fixVars, gwVars, loopVars, sessVars, turnVars, logVars, invVars, fnVars>>
    \/ McpReceive /\ UNCHANGED <<fixVars, gwVars, loopVars, sessVars, turnVars, logVars, invVars, fnVars>>
SpecMcp == InitMcp /\ [][NextMcp]_vars

InitSession == FixIdle /\ GwIdle /\ LoopIdle /\ McpIdle /\ SessInit /\ TurnIdle /\ LogIdle /\ InvokeIdle /\ FnIdle
NextSession ==
    \/ HandlerBegin /\ UNCHANGED <<fixVars, gwVars, loopVars, mcpCallVars, turnVars, logVars, invVars, fnVars>>
    \/ HandlerCheckSession /\ UNCHANGED <<fixVars, gwVars, loopVars, mcpCallVars, turnVars, logVars, invVars, fnVars>>
    \/ InitSend /\ UNCHANGED <<fixVars, gwVars, loopVars, mcpCallVars, turnVars, logVars, invVars, fnVars>>
    \/ InitReceive /\ UNCHANGED <<fixVars, gwVars, loopVars, mcpCallVars, turnVars, logVars, invVars, fnVars>>
    \/ InitNotify /\ UNCHANGED <<fixVars, gwVars, loopVars, mcpCallVars, turnVars, logVars, invVars, fnVars>>
    \/ GetToolsCheck /\ UNCHANGED <<fixVars, gwVars, loopVars, mcpCallVars, turnVars, logVars, invVars, fnVars>>
    \/ GetToolsSend /\ UNCHANGED <<fixVars, gwVars, loopVars, mcpCallVars, turnVars, logVars, invVars, fnVars>>
    \/ GetToolsReceive /\ UNCHANGED <<fixVars, gwVars, loopVars, mcpCallVars, turnVars, logVars, invVars, fnVars>>
    \/ ToolCallValidate /\ UNCHANGED <<fixVars, gwVars, loopVars, mcpCallVars, turnVars, logVars, invVars, fnVars>>
    \/ CallToolSend /\ UNCHANGED <<fixVars, gwVars, loopVars, mcpCallVars, turnVars, logVars, invVars, fnVars>>
    \/ CallToolReceive /\ UNCHANGED <<fixVars, gwVars, loopVars, mcpCallVars, turnVars, logVars, invVars, fnVars>>
SpecSession == InitSession /\ [][NextSession]_vars

InitTurn == FixIdle /\ GwIdle /\ LoopIdle /\ McpCallIdle /\ HandlersIdle /\ TurnInit /\ LogIdle /\ InvokeIdle /\ FnIdle
NextTurn ==
    \/ TurnBegin /\ UNCHANGED <<fixVars, gwVars, loopVars, mcpCallVars, handlerVars, logVars, invVars, fnVars, history, synth_messages, full_text>>
    \/ TurnEnsureSession /\ UNCHANGED <<fixVars, gwVars, loopVars, mcpCallVars, handlerVars, logVars, invVars, fnVars, history, synth_messages, full_text>>
    \/ TurnGetTools /\ UNCHANGED <<fixVars, gwVars, loopVars, mcpCallVars, handlerVars, logVars, invVars, fnVars, history, synth_messages, full_text>>
    \/ TurnLoopStart /\ UNCHANGED <<fixVars, gwVars, loopVars, mcpCallVars, handlerVars, logVars, invVars, fnVars, history, synth_messages, full_text>>
    \/ TurnLoopGateway /\ UNCHANGED <<fixVars, gwVars, loopVars, mcpCallVars, handlerVars, logVars, invVars, fnVars, history, synth_messages, full_text>>
    \/ TurnLoopTool /\ UNCHANGED <<fixVars, gwVars, loopVars, mcpCallVars, handlerVars, logVars, invVars, fnVars, history, synth_messages, full_text>>
    \/ TurnEmitToolCall /\ UNCHANGED <<fixVars, gwVars, loopVars, mcpCallVars, handlerVars, logVars, invVars, fnVars, history, synth_messages, full_text>>
    \/ TurnMcpComplete /\ UNCHANGED <<fixVars, gwVars, loopVars, mcpCallVars, handlerVars, logVars, invVars, fnVars, history, synth_messages, full_text>>
    \/ TurnKnowledgeBase /\ UNCHANGED <<fixVars, gwVars, loopVars, mcpCallVars, handlerVars, logVars, invVars, fnVars, history, synth_messages, full_text>>
    \/ TurnSynthesisStart /\ UNCHANGED <<fixVars, gwVars, loopVars, mcpCallVars, handlerVars, logVars, invVars, fnVars, history, full_text>>
    \/ TurnStreamChunk /\ UNCHANGED <<fixVars, gwVars, loopVars, mcpCallVars, handlerVars, logVars, invVars, fnVars, history, synth_messages>>
    \/ TurnStreamEnd /\ UNCHANGED <<fixVars, gwVars, loopVars, mcpCallVars, handlerVars, logVars, invVars, fnVars, history, synth_messages>>
    \/ TurnFinish /\ UNCHANGED <<fixVars, gwVars, loopVars, mcpCallVars, handlerVars, logVars, invVars, fnVars, history, synth_messages, full_text>>
SpecTurn == InitTurn /\ [][NextTurn]_vars

InitLog == FixIdle /\ GwIdle /\ LoopIdle /\ McpIdle /\ SessIdle /\ TurnIdle /\ LogInit /\ InvokeIdle /\ FnIdle
NextLog ==
    \/ LogCheckExists /\ UNCHANGED <<fixVars, gwVars, loopVars, mcpVars, sessVars, turnVars, invVars, fnVars>>
    \/ LogResume /\ UNCHANGED <<fixVars, gwVars, loopVars, mcpVars, sessVars, turnVars, invVars, fnVars>>
    \/ LogOpenNew /\ UNCHANGED <<fixVars, gwVars, loopVars, mcpVars, sessVars, turnVars, invVars, fnVars>>
    \/ LogWriteNew /\ UNCHANGED <<fixVars, gwVars, loopVars, mcpVars, sessVars, turnVars, invVars, fnVars>>
    \/ LogEntry /\ UNCHANGED <<fixVars, gwVars, loopVars, mcpVars, sessVars, turnVars, invVars, fnVars>>
SpecLog == InitLog /\ [][NextLog]_vars

InitInvoke ==
    /\ FixIdle /\ GwIdle /\ LoopIdle /\ McpIdle /\ SessIdle /\ TurnIdle /\ LogIdle
    /\ InvokeInit /\ FnIdle
NextInvoke ==
    \/ InvokeCallTool /\ UNCHANGED <<fixVars, gwVars, loopVars, mcpVars, sessVars, turnVars, logVars, fnVars>>
    \/ InvokeRecord /\ UNCHANGED <<fixVars, gwVars, loopVars, mcpVars, sessVars, turnVars, logVars, fnVars>>
SpecInvoke == InitInvoke /\ [][NextInvoke]_vars

InitData ==
    /\ FixIdle /\ GwIdle /\ LoopIdle /\ McpIdle /\ SessIdle /\ TurnIdle /\ LogIdle
    /\ InvokeIdle /\ DataInit /\ SourcesIdle /\ OverrideIdle /\ ThinkingIdle /\ ConcIdle
NextData ==
    \/ DataRecord /\ UNCHANGED <<fixVars, gwVars, loopVars, mcpVars, sessVars, turnVars, logVars, invVars, srcVars, ovVars, thVars, ctVars>>
    \/ DataReturn /\ UNCHANGED <<fixVars, gwVars, loopVars, mcpVars, sessVars, turnVars, logVars, invVars, srcVars, ovVars, thVars, ctVars>>
SpecData == InitData /\ [][NextData]_vars

InitSources ==
    /\ FixIdle /\ GwIdle /\ LoopIdle /\ McpIdle /\ SessIdle /\ TurnIdle /\ LogIdle
    /\ InvokeIdle /\ DataIdle /\ SourcesInit /\ OverrideIdle /\ ThinkingIdle /\ ConcIdle
NextSources ==
    \/ SourcesChunk /\ UNCHANGED <<fixVars, gwVars, loopVars, mcpVars, sessVars, turnVars, logVars, invVars, dataVars, ovVars, thVars, ctVars>>
    \/ SourcesReturn /\ UNCHANGED <<fixVars, gwVars, loopVars, mcpVars, sessVars, turnVars, logVars, invVars, dataVars, ovVars, thVars, ctVars>>
SpecSources == InitSources /\ [][NextSources]_vars

InitOverride ==
    /\ FixIdle /\ GwIdle /\ LoopIdle /\ McpIdle /\ SessIdle /\ TurnIdle /\ LogIdle
    /\ InvokeIdle /\ DataIdle /\ SourcesIdle /\ OverrideInit /\ ThinkingIdle /\ ConcIdle
NextOverride ==
    \/ OverrideGate /\ UNCHANGED <<fixVars, gwVars, loopVars, mcpVars, sessVars, turnVars, logVars, invVars, dataVars, srcVars, thVars, ctVars>>
    \/ OverrideApply /\ UNCHANGED <<fixVars, gwVars, loopVars, mcpVars, sessVars, turnVars, logVars, invVars, dataVars, srcVars, thVars, ctVars>>
    \/ OverrideKb /\ UNCHANGED <<fixVars, gwVars, loopVars, mcpVars, sessVars, turnVars, logVars, invVars, dataVars, srcVars, thVars, ctVars>>
    \/ OverrideNextTurn /\ UNCHANGED <<fixVars, gwVars, loopVars, mcpVars, sessVars, turnVars, logVars, invVars, dataVars, srcVars, thVars, ctVars>>
SpecOverride == InitOverride /\ [][NextOverride]_vars

InitThinking ==
    /\ FixIdle /\ GwIdle /\ LoopIdle /\ McpIdle /\ SessIdle /\ TurnIdle /\ LogIdle
    /\ InvokeIdle /\ DataIdle /\ SourcesIdle /\ OverrideIdle /\ ThinkingInit /\ ConcIdle
NextThinking ==
    BuildThinkingConfig /\ UNCHANGED <<fixVars, gwVars, loopVars, mcpVars, sessVars, turnVars, logVars, invVars, dataVars, srcVars, ovVars, ctVars>>
SpecThinking == InitThinking /\ [][NextThinking]_vars

InitConcurrent ==
    /\ FixIdle /\ GwIdle /\ LoopIdle /\ McpIdle /\ SessIdle /\ TurnIdle /\ LogIdle
    /\ InvokeIdle /\ DataIdle /\ SourcesIdle /\ OverrideIdle /\ ThinkingIdle /\ ConcInit
NextConcurrent ==
    \/ ConcGateway /\ UNCHANGED <<fixVars, gwVars, loopVars, mcpVars, sessVars, turnVars, logVars, invVars, dataVars, srcVars, ovVars, thVars>>
    \/ ConcInvoke /\ UNCHANGED <<fixVars, gwVars, loopVars, mcpVars, sessVars, turnVars, logVars, invVars, dataVars, srcVars, ovVars, thVars>>
    \/ ConcRecord /\ UNCHANGED <<fixVars, gwVars, loopVars, mcpVars, sessVars, turnVars, logVars, invVars, dataVars, srcVars, ovVars, thVars>>
    \/ ConcEmit /\ UNCHANGED <<fixVars, gwVars, loopVars, mcpVars, sessVars, turnVars, logVars, invVars, dataVars, srcVars, ovVars, thVars>>
    \/ ConcFinish /\ UNCHANGED <<fixVars, gwVars, loopVars, mcpVars, sessVars, turnVars, logVars, invVars, dataVars, srcVars, ovVars, thVars>>
SpecConcurrent == InitConcurrent /\ [][NextConcurrent]_vars

Init == InitGateway
Next == NextGateway
Spec == SpecGateway

====
